---- MODULE Spec2Model ----
(***************************************************************************)
(* A model of the request client (RandomUserApiClient: the retrying        *)
(* request and its parameter-checking wrappers) and of the command         *)
(* invoker (TestCommandInvoker) of randomuser-api-test-automation.         *)
(***************************************************************************)
EXTENDS Integers, Sequences, FiniteSets, TLC

\* ------------------------------------------------------------------ bounds

\* Largest retryAttempts value a builder is given in the model.
MaxAttempts == 4
\* Longest nationality string supplied to getUsersByNationality.
MaxNatLen == 3
\* Longest field list supplied to getUsersWithFields / getUsersWithoutFields.
MaxFields == 2
\* Longest history the invoker is driven to.
MaxHistory == 3
\* The calls on an invoker that are recorded one by one.
MaxTrace == 4
\* The changes a caller makes to an array getHistory() handed out.
MaxEdits == 2
\* The sub-commands of a macro command.
MaxSubCommands == 3
\* The subscriptions a notifier holds.
MaxObservers == 3
\* The sub-strategies a composite holds.
MaxStrategies == 3
\* The most test-completed events delivered to a metrics observer between resets.
MaxEvents == 7
\* The most requests in flight on one client.
MaxRequests == 2

\* ------------------------------------------------------- program constants

\* loadDefaultConfig: api.retryAttempts and api.retryDelay.
DefaultRetryAttempts == 3
DefaultRetryDelay == 1000
\* PerformanceTestCommand: maxDuration = 5000
DefaultMaxDuration == 5000
\* getMultipleUsers: the accepted range of count.
MinCount == 1
MaxCount == 5000

\* --------------------------------------------------------------- JS values

\* A JavaScript value of type number | undefined, a boolean, a text.
Num(n) == [t |-> "num", v |-> n]
Undef == [t |-> "undefined", v |-> 0]
NaN == [t |-> "nan", v |-> 0]
Bool(b) == [t |-> "bool", v |-> b]
Text(s) == [t |-> "text", v |-> s]

\* Truthiness as the || operator sees it: undefined, 0, NaN and the empty
\* string are falsy.
IsTruthy(x) ==
    \/ x.t = "num" /\ x.v # 0
    \/ x.t = "text" /\ x.v # ""

\* a || b
OrElse(a, b) == IF IsTruthy(a) THEN a ELSE b

\* n >= x for an integer n and a JS number x: any comparison with NaN is false.
GreaterEq(n, x) == x.t = "num" /\ n >= x.v

RECURSIVE Pow2(_)
\* Math.pow(2, e) for an integer e >= 0.
Pow2(e) == IF e <= 0 THEN 1 ELSE 2 * Pow2(e - 1)

\* ------------------------------------------------------------------- state

VARIABLES
    config,     \* the client's this.config (retryAttempts, retryDelay)
    pc,         \* where the one request in flight stands
    attempt,    \* retryRequest's attempt parameter
    params,     \* the merged query parameters handed to client.get
    events,     \* what the request did so far: calls issued, how each ended, waits completed
    timer,      \* the delay of the pending wait(delay), 0 when none is pending
    lastError,  \* the failure of the latest failed attempt
    result,     \* what the operation returned or raised
    op          \* the operation called and its arguments

clientVars == <<config, pc, attempt, params, events, timer, lastError, result, op>>

VARIABLES
    history,      \* TestCommandInvoker.history
    currentIndex, \* TestCommandInvoker.currentIndex
    call,         \* the invoker call in progress or last completed
    trace,        \* the calls made on the invoker since it was last empty
    returned      \* the array the latest getHistory() handed to its caller

invokerVars == <<history, currentIndex, call, trace, returned>>

VARIABLES
    execution     \* the built-in command whose execute() runs or ran last

commandVars == <<execution>>

VARIABLES
    macro         \* a MacroTestCommand: its sub-commands and its call in progress

macroVars == <<macro>>

VARIABLES
    observers,    \* TestResultNotifier.observers
    notification, \* the notify call in progress or last completed
    removed       \* the observer of the latest removeObserver call, and how often it was subscribed

notifierVars == <<observers, notification, removed>>

VARIABLES
    composite,    \* CompositeValidationStrategy.strategies
    validation    \* the latest validate(data) call on the composite

validatorVars == <<composite, validation>>

VARIABLES
    checked       \* the latest validate(user) of the user-structure strategy

structureVars == <<checked>>

VARIABLES
    api           \* the ConfigManager singleton's this.config.api

configVars == <<api>>

VARIABLES
    inflight      \* the getUsers calls in flight on one client, each with its own retryRequest frames

flightVars == <<inflight>>

VARIABLES
    metrics,      \* MetricsTestObserver.metrics
    seen          \* the test-completed events delivered since construction or the last reset

metricsVars == <<metrics, seen>>

VARIABLES
    validated       \* the latest validate(data) call on one of the built-in strategies

strategyVars == << validated >>

VARIABLES
    invoker,      \* a TestCommandInvoker driven by overlapping calls: history, currentIndex
    awaiting,     \* its calls suspended at their await, each with the command it awaits
    tally         \* per command the execute() and undo() invocations made, and the calls started

overlapVars == <<invoker, awaiting, tally>>

VARIABLES
    heap,         \* the configuration objects there are: heap[1] is the builder's this.config
    clients,      \* the clients built by the builder, each as the reference its this.config holds
    asBuilt       \* what each client's configuration was when build() returned it

builderVars == <<heap, clients, asBuilt>>

VARIABLES
    processEnv,   \* process.env: NODE_ENV and RETRY_ATTEMPTS
    obtained      \* the latest getConfigForEnvironment(env) call: env, process.env as it found it, the result

environmentVars == <<processEnv, obtained>>

vars == <<clientVars, invokerVars, commandVars, macroVars, notifierVars, validatorVars, structureVars, configVars, flightVars, metricsVars, strategyVars, overlapVars, builderVars, environmentVars>>

\* What an action of one component leaves alone: the other components. A
\* command runs on the client.
notClient == <<invokerVars, commandVars, macroVars, notifierVars, validatorVars, structureVars, configVars, flightVars, metricsVars, strategyVars, overlapVars, builderVars, environmentVars>>
notInvoker == <<clientVars, commandVars, macroVars, notifierVars, validatorVars, structureVars, configVars, flightVars, metricsVars, strategyVars, overlapVars, builderVars, environmentVars>>
notCommand == <<invokerVars, macroVars, notifierVars, validatorVars, structureVars, configVars, flightVars, metricsVars, strategyVars, overlapVars, builderVars, environmentVars>>
notMacro == <<clientVars, invokerVars, commandVars, notifierVars, validatorVars, structureVars, configVars, flightVars, metricsVars, strategyVars, overlapVars, builderVars, environmentVars>>
notNotifier == <<clientVars, invokerVars, commandVars, macroVars, validatorVars, structureVars, configVars, flightVars, metricsVars, strategyVars, overlapVars, builderVars, environmentVars>>
notValidator == <<clientVars, invokerVars, commandVars, macroVars, notifierVars, structureVars, configVars, flightVars, metricsVars, strategyVars, overlapVars, builderVars, environmentVars>>
notStructure == <<clientVars, invokerVars, commandVars, macroVars, notifierVars, validatorVars, configVars, flightVars, metricsVars, strategyVars, overlapVars, builderVars, environmentVars>>
notConfig == <<clientVars, invokerVars, commandVars, macroVars, notifierVars, validatorVars, structureVars, flightVars, metricsVars, strategyVars, overlapVars, builderVars, environmentVars>>
notFlight == <<clientVars, invokerVars, commandVars, macroVars, notifierVars, validatorVars, structureVars, configVars, metricsVars, strategyVars, overlapVars, builderVars, environmentVars>>
notMetrics == <<clientVars, invokerVars, commandVars, macroVars, notifierVars, validatorVars, structureVars, configVars, flightVars, strategyVars, overlapVars, builderVars, environmentVars>>
notStrategy == <<clientVars, invokerVars, commandVars, macroVars, notifierVars, validatorVars, structureVars, configVars, flightVars, metricsVars, overlapVars, builderVars, environmentVars>>
notOverlap == <<clientVars, invokerVars, commandVars, macroVars, notifierVars, validatorVars, structureVars, configVars, flightVars, metricsVars, strategyVars, builderVars, environmentVars>>
notBuilder == <<clientVars, invokerVars, commandVars, macroVars, notifierVars, validatorVars, structureVars, configVars, flightVars, metricsVars, strategyVars, overlapVars, environmentVars>>
notEnvironment == <<clientVars, invokerVars, commandVars, macroVars, notifierVars, validatorVars, structureVars, configVars, flightVars, metricsVars, strategyVars, overlapVars, builderVars>>

\* ---------------------------------------------------------- ConfigManager

\* loadDefaultConfig(): the settings loadEnvironmentConfig changes or a client
\* reads, and the environment tag.
loadDefaultConfig ==
    [api |-> [baseUrl |-> Text("https://randomuser.me/api"),
              timeout |-> Num(10000),
              retryAttempts |-> Num(DefaultRetryAttempts),
              retryDelay |-> Num(DefaultRetryDelay)],
     testing |-> [enableLogging |-> TRUE,
                  maxConcurrentRequests |-> 10,
                  performanceThreshold |-> 5000],
     environment |-> "development"]

\* The decimal digits, the digit d at position d + 1.
Digits == <<"0", "1", "2", "3", "4", "5", "6", "7", "8", "9">>
IsDigit(c) == \E d \in DOMAIN Digits : Digits[d] = c
DigitValue(c) == (CHOOSE d \in DOMAIN Digits : Digits[d] = c) - 1

RECURSIVE parseDigits(_, _)
\* The value of the longest prefix of digits of str, acc being the value of
\* the digits read so far.
parseDigits(str, acc) ==
    IF str = <<>> \/ ~IsDigit(Head(str)) THEN acc
    ELSE parseDigits(Tail(str), 10 * acc + DigitValue(Head(str)))

\* parseInt(str, 10), a string being the sequence of its characters: an
\* optional sign, then the longest prefix of digits; NaN when there is none.
parseInt(str) ==
    LET signed == str # <<>> /\ Head(str) \in {"-", "+"}
        digits == IF signed THEN Tail(str) ELSE str
    IN IF digits = <<>> \/ ~IsDigit(Head(digits)) THEN NaN
       ELSE IF signed /\ Head(str) = "-" THEN Num(0 - parseDigits(digits, 0))
       ELSE Num(parseDigits(digits, 0))

\* The environment read by loadEnvironmentConfig: NODE_ENV, unset or a string,
\* and RETRY_ATTEMPTS, unset being the empty sequence. API_BASE_URL,
\* API_TIMEOUT and ENABLE_LOGGING are unset.
Unset == "(unset)"
NodeEnvs == {Unset, "", "development", "testing", "production"}
RetryAttemptsEnvs ==
    {<<>>, <<"2">>, <<"0">>, <<"0", "4">>, <<"-", "1">>, <<"2", "x">>, <<"a", "b", "c">>, <<"x", "2">>}

\* loadEnvironmentConfig() on the configuration cfg: the switch on NODE_ENV,
\* then RETRY_ATTEMPTS when it is a non-empty string.
loadEnvironmentConfig(cfg, nodeEnv, retryAttemptsEnv) ==
    LET env == IF nodeEnv \in {Unset, ""} THEN "development" ELSE nodeEnv
        tagged == [cfg EXCEPT !.environment = env]
        switched == CASE env = "production" ->
                            [tagged EXCEPT !.api.timeout = Num(30000),
                                           !.api.retryAttempts = Num(5),
                                           !.testing.enableLogging = FALSE,
                                           !.testing.performanceThreshold = 3000]
                      [] env = "testing" ->
                            [tagged EXCEPT !.api.timeout = Num(5000),
                                           !.api.retryAttempts = Num(1),
                                           !.testing.enableLogging = FALSE,
                                           !.testing.maxConcurrentRequests = 5]
                      [] OTHER -> tagged
    IN IF retryAttemptsEnv # <<>>
       THEN [switched EXCEPT !.api.retryAttempts = parseInt(retryAttemptsEnv)]
       ELSE switched

\* resetToDefaults() (the constructor does the same) under some environment.
resetToDefaults ==
    /\ UNCHANGED notConfig
    /\ \E nodeEnv \in NodeEnvs, retryAttemptsEnv \in RetryAttemptsEnvs :
        api' = loadEnvironmentConfig(loadDefaultConfig, nodeEnv, retryAttemptsEnv).api

\* The env values of getConfigForEnvironment's parameter type.
Environments == {"development", "testing", "production"}

\* getConfigForEnvironment(env) under NODE_ENV = nodeEnv: a temporary instance
\* is constructed (defaults, then loadEnvironmentConfig under the environment
\* as it is), NODE_ENV is set to env and loadEnvironmentConfig runs again on
\* that instance; NODE_ENV is then set back when it was truthy and deleted
\* otherwise. The result is the instance's configuration.
getConfigForEnvironment(env, nodeEnv, retryAttemptsEnv) ==
    LET tempInstance == loadEnvironmentConfig(loadDefaultConfig, nodeEnv, retryAttemptsEnv)
        originalEnv == nodeEnv
    IN [config |-> loadEnvironmentConfig(tempInstance, env, retryAttemptsEnv),
        nodeEnv |-> IF originalEnv \notin {Unset, ""} THEN originalEnv ELSE Unset]

NoObtained ==
    [env |-> "", nodeEnv |-> Unset, retryAttemptsEnv |-> <<>>, config |-> loadDefaultConfig]

\* The process is started with, or sets, its environment variables.
setEnvironment ==
    /\ UNCHANGED notEnvironment
    /\ \E nodeEnv \in NodeEnvs, retryAttemptsEnv \in RetryAttemptsEnvs :
        /\ processEnv' = [NODE_ENV |-> nodeEnv, RETRY_ATTEMPTS |-> retryAttemptsEnv]
        /\ processEnv' # processEnv
    /\ UNCHANGED obtained

\* ConfigManager.getConfigForEnvironment(env) is called.
getConfigForEnvironmentCall ==
    /\ UNCHANGED notEnvironment
    /\ \E env \in Environments :
        LET call0 == getConfigForEnvironment(env, processEnv.NODE_ENV, processEnv.RETRY_ATTEMPTS) IN
        /\ processEnv' = [processEnv EXCEPT !.NODE_ENV = call0.nodeEnv]
        /\ obtained' = [env |-> env, nodeEnv |-> processEnv.NODE_ENV,
                        retryAttemptsEnv |-> processEnv.RETRY_ATTEMPTS, config |-> call0.config]

EnvironmentInit ==
    /\ processEnv = [NODE_ENV |-> Unset, RETRY_ATTEMPTS |-> <<>>]
    /\ obtained = NoObtained

\* -------------------------------------------------- the client: construction

\* ConfigManager.getApiConfig(): a copy of this.config.api.
getApiConfig == api

\* new RandomUserApiClient(cfg): every unset, zero or NaN setting falls back to
\* the configuration manager's value.
RandomUserApiClient(cfg) ==
    [baseUrl |-> OrElse(cfg.baseUrl, getApiConfig.baseUrl),
     timeout |-> OrElse(cfg.timeout, getApiConfig.timeout),
     retryAttempts |-> OrElse(cfg.retryAttempts, getApiConfig.retryAttempts),
     retryDelay |-> OrElse(cfg.retryDelay, getApiConfig.retryDelay),
     enableLogging |-> IF cfg.enableLogging # Undef THEN cfg.enableLogging ELSE Bool(TRUE)]

\* The configurations a builder hands to the constructor: withRetries never
\* called (both undefined), or called with attempts and a delay.
RetryDelays == {0, 500, 1000, 2000}
\* private config: ApiClientConfig = {}
NoConfig ==
    [baseUrl |-> Undef, timeout |-> Undef, retryAttempts |-> Undef, retryDelay |-> Undef,
     enableLogging |-> Undef]
BuilderConfigs ==
    {NoConfig}
        \cup {[NoConfig EXCEPT !.retryAttempts = Num(a), !.retryDelay = Num(d)] :
                a \in (0 - 1)..MaxAttempts, d \in RetryDelays}
        \cup {[NoConfig EXCEPT !.retryAttempts = NaN, !.retryDelay = Num(d)] : d \in RetryDelays}

\* ----------------------------------------------- the client: retryRequest

\* What one network call (requestFn) can end in: a 2xx response, a response
\* with a status axios rejects, no response at all (the request was sent), an
\* axios error raised before the request was sent, or a non-axios error.
Statuses == {304, 400, 404, 429, 499, 500, 503}
Failures ==
    {[kind |-> "http", status |-> s] : s \in Statuses}
        \cup {[kind |-> "noresponse", status |-> 0],
              [kind |-> "setup", status |-> 0],
              [kind |-> "other", status |-> 0]}
NoError == [kind |-> "none", status |-> 0]

\* Mutant of IsClientError: the lower bound is exclusive (status > 400).
IsClientErrorAbove400(err) ==
    err.kind = "http" /\ err.status > 400 /\ err.status < 500 /\ err.status # 429

\* Mutant of IsClientError: 429 is not excepted.
IsClientErrorWith429(err) ==
    err.kind = "http" /\ err.status >= 400 /\ err.status < 500

\* axiosError.response && status >= 400 && status < 500 && status !== 429
IsClientError(err) ==
    err.kind = "http" /\ err.status >= 400 /\ err.status < 500 /\ err.status # 429

\* Mutant of Rethrows: attempt > retryAttempts, one attempt too many.
RethrowsOffByOne(att, err) ==
    (config.retryAttempts.t = "num" /\ att > config.retryAttempts.v) \/ IsClientError(err)

\* retryRequest's catch block rethrows: attempts are used up, or a client error.
Rethrows(att, err) == GreaterEq(att, config.retryAttempts) \/ IsClientError(err)

\* Mutant of BackoffDelay: Math.pow(2, attempt), the exponent one too high.
BackoffDelayExponentOff(base, att) == base * Pow2(att)

\* const delay = this.config.retryDelay * Math.pow(2, attempt - 1)
BackoffDelay(base, att) == base * Pow2(att - 1)

\* Mutant of handleError: the switch on the status is left out, every response
\* gives the generic status error.
handleErrorWithoutSwitch(err) ==
    IF err.kind = "http" THEN [category |-> "status", status |-> err.status]
    ELSE IF err.kind = "noresponse" THEN [category |-> "No response from server", status |-> 0]
    ELSE IF err.kind = "setup" THEN [category |-> "Request configuration error", status |-> 0]
    ELSE [category |-> "unchanged", status |-> 0]

\* handleError: the error getUsers finally raises for the failure it caught.
handleError(err) ==
    IF err.kind = "http" THEN
        CASE err.status = 400 -> [category |-> "Bad Request", status |-> 400]
          [] err.status = 404 -> [category |-> "Not Found", status |-> 404]
          [] err.status = 429 -> [category |-> "Too Many Requests", status |-> 429]
          [] err.status = 500 -> [category |-> "Internal Server Error", status |-> 500]
          [] err.status = 503 -> [category |-> "Service Unavailable", status |-> 503]
          [] OTHER -> [category |-> "status", status |-> err.status]
    ELSE IF err.kind = "noresponse" THEN [category |-> "No response from server", status |-> 0]
    ELSE IF err.kind = "setup" THEN [category |-> "Request configuration error", status |-> 0]
    ELSE [category |-> "unchanged", status |-> 0]

\* The entries of events: attempt n's network call is issued, it ends in a 2xx
\* response, it ends in a failure, a wait of d milliseconds has completed.
CallEvent(n) == [e |-> "call", n |-> n]
OkEvent(n) == [e |-> "ok", n |-> n]
FailEvent(n) == [e |-> "fail", n |-> n]
WaitEvent(d) == [e |-> "wait", n |-> d]
NoResult == [state |-> "none", payloadOf |-> 0, category |-> "", status |-> 0, detail |-> <<>>]
Returned(att) == [state |-> "returned", payloadOf |-> att, category |-> "", status |-> 0, detail |-> <<>>]
Raised(category, status, detail) ==
    [state |-> "raised", payloadOf |-> 0, category |-> category, status |-> status, detail |-> detail]
NoParams == [none |-> TRUE]

NoOp == [name |-> "none", count |-> 0, arg |-> <<>>]
Called(name, count, arg) == [name |-> name, count |-> count, arg |-> arg]

\* getUsers(p): merge p over the defaults and start retryRequest at attempt 1,
\* which issues the first network call at once.
getUsers(p) ==
    /\ params' = p @@ [format |-> "json", results |-> 1]
    /\ pc' = "calling"
    /\ attempt' = 1
    /\ events' = <<CallEvent(1)>>
    /\ timer' = 0
    /\ lastError' = NoError
    /\ result' = NoResult
    /\ UNCHANGED config

\* A wrapper's parameter check fails: the error is raised before getUsers.
Reject(category, detail) ==
    /\ params' = NoParams
    /\ pc' = "thrown"
    /\ attempt' = 0
    /\ events' = <<>>
    /\ timer' = 0
    /\ lastError' = NoError
    /\ result' = Raised(category, 0, detail)
    /\ UNCHANGED config

\* Mutant of RequestSucceeds: a success after an earlier failed attempt raises
\* that earlier failure instead of returning the response.
RequestSucceedsUnlessFailedBefore ==
    /\ UNCHANGED notClient
    /\ pc = "calling"
    /\ IF lastError = NoError
       THEN pc' = "returned" /\ result' = Returned(attempt)
       ELSE pc' = "thrown" /\ result' = LET h == handleError(lastError) IN Raised(h.category, h.status, <<>>)
    /\ events' = Append(events, OkEvent(attempt))
    /\ UNCHANGED <<config, attempt, params, timer, lastError, op>>

\* The network call of the current attempt succeeds: retryRequest returns the
\* response and getUsers returns its data.
RequestSucceeds ==
    /\ UNCHANGED notClient
    /\ pc = "calling"
    /\ pc' = "returned"
    /\ result' = Returned(attempt)
    /\ events' = Append(events, OkEvent(attempt))
    /\ UNCHANGED <<config, attempt, params, timer, lastError, op>>

\* The network call of the current attempt fails with err: retryRequest either
\* rethrows (getUsers then raises handleError(err)) or starts wait(delay).
RequestFails ==
    /\ UNCHANGED notClient
    /\ pc = "calling"
    /\ \E err \in Failures :
        /\ lastError' = err
        /\ IF Rethrows(attempt, err)
           THEN /\ pc' = "thrown"
                /\ result' = LET h == handleError(err) IN Raised(h.category, h.status, <<>>)
                /\ timer' = 0
           ELSE /\ pc' = "waiting"
                /\ timer' = BackoffDelay(config.retryDelay.v, attempt)
                /\ result' = result
    /\ events' = Append(events, FailEvent(attempt))
    /\ UNCHANGED <<config, attempt, params, op>>

\* The model follows a request up to this many network calls.
MaxCalls == MaxAttempts + 2

\* wait(delay) resolves: retryRequest calls itself with attempt + 1, which
\* issues the next network call.
WaitDone ==
    /\ UNCHANGED notClient
    /\ pc = "waiting"
    /\ attempt < MaxCalls
    /\ pc' = "calling"
    /\ attempt' = attempt + 1
    /\ events' = events \o <<WaitEvent(timer), CallEvent(attempt + 1)>>
    /\ timer' = 0
    /\ UNCHANGED <<config, params, lastError, result, op>>

\* The awaiting caller receives the payload or the error; the client is free
\* for the next request.
Received ==
    /\ pc' = "idle"
    /\ attempt' = 0
    /\ params' = NoParams
    /\ events' = <<>>
    /\ timer' = 0
    /\ lastError' = NoError
    /\ result' = NoResult
    /\ op' = NoOp
    /\ UNCHANGED config

Settle ==
    /\ UNCHANGED notClient
    /\ pc \in {"returned", "thrown"}
    /\ Received

\* ------------------------------------- the client: the checking wrappers

\* Letters of the nationality strings supplied, lower case and upper case.
LowerLetters == <<"a", "s", "u">>
UpperLetters == <<"A", "S", "U">>
Letters == {LowerLetters[i] : i \in 1..Len(LowerLetters)} \cup {UpperLetters[i] : i \in 1..Len(UpperLetters)}

\* One character of String.prototype.toUpperCase.
UpperChar(c) ==
    IF \E i \in 1..Len(LowerLetters) : LowerLetters[i] = c
    THEN UpperLetters[CHOOSE i \in 1..Len(LowerLetters) : LowerLetters[i] = c]
    ELSE c

\* nationality.toUpperCase(), a string being the sequence of its characters.
toUpperCase(str) == [i \in 1..Len(str) |-> UpperChar(str[i])]

supportedNationalities ==
    {<<"A", "U">>, <<"B", "R">>, <<"C", "A">>, <<"C", "H">>, <<"D", "E">>, <<"D", "K">>,
     <<"E", "S">>, <<"F", "I">>, <<"F", "R">>, <<"G", "B">>, <<"I", "E">>, <<"I", "N">>,
     <<"I", "R">>, <<"M", "X">>, <<"N", "L">>, <<"N", "O">>, <<"N", "Z">>, <<"R", "S">>,
     <<"T", "R">>, <<"U", "S">>}

availableFields ==
    {"gender", "name", "location", "email", "login", "dob", "registered", "phone",
     "cell", "id", "picture", "nat"}

\* Mutant of invalidFields: only the first supplied name is looked up.
invalidFieldsFirstOnly(fields) ==
    IF Len(fields) = 0 THEN <<>>
    ELSE SelectSeq(<<fields[1]>>, LAMBDA f : f \notin availableFields)

\* fields.filter(field => !availableFields.includes(field))
invalidFields(fields) == SelectSeq(fields, LAMBDA f : f \notin availableFields)

RECURSIVE join(_)
\* fields.join(',')
join(fields) ==
    IF Len(fields) = 0 THEN ""
    ELSE IF Len(fields) = 1 THEN fields[1]
    ELSE fields[1] \o "," \o join(Tail(fields))

\* Mutant of CountOutOfRange: count >= 5000, the upper bound itself refused.
CountOutOfRangeUpperExclusive(count) == count < MinCount \/ count >= MaxCount

\* if (count < 1 || count > 5000)
CountOutOfRange(count) == count < MinCount \/ count > MaxCount

\* The arguments supplied in the model.
Counts == {MinCount - 2, MinCount - 1, MinCount, MinCount + 1, MaxCount - 1, MaxCount, MaxCount + 1, 999999}
NatInputs == UNION {[1..n -> Letters] : n \in 1..MaxNatLen}
FieldNames == {"name", "email", "Name", "invalidField"}
FieldInputs == UNION {[1..n -> FieldNames] : n \in 0..MaxFields}
Genders == {"male", "female"}
Seeds == {"test-seed-123"}

\* The bodies of the wrappers a command calls, for given arguments.
getSingleUserBody ==
    /\ op' = Called("getSingleUser", 1, <<>>)
    /\ getUsers([results |-> 1])

getMultipleUsersBody(count) ==
    /\ op' = Called("getMultipleUsers", count, <<>>)
    /\ IF CountOutOfRange(count)
       THEN Reject("Count must be between 1 and 5000", <<>>)
       ELSE getUsers([results |-> count])

getUsersByGenderBody(gender, count) ==
    /\ op' = Called("getUsersByGender", count, <<gender>>)
    /\ getUsers([gender |-> gender, results |-> count])

getSingleUser ==
    /\ UNCHANGED notClient
    /\ pc = "idle"
    /\ getSingleUserBody

getMultipleUsers ==
    /\ UNCHANGED notClient
    /\ pc = "idle"
    /\ \E count \in Counts : getMultipleUsersBody(count)

getUsersByGender ==
    /\ UNCHANGED notClient
    /\ pc = "idle"
    /\ \E gender \in Genders, count \in Counts : getUsersByGenderBody(gender, count)

\* Mutant of getUsersByNationality: the allow-list is searched for the string as
\* given, not for its upper-case form.
getUsersByNationalityCaseSensitive ==
    /\ UNCHANGED notClient
    /\ pc = "idle"
    /\ \E nationality \in NatInputs, count \in Counts :
        /\ op' = Called("getUsersByNationality", count, nationality)
        /\ IF nationality \notin supportedNationalities
           THEN Reject("Unsupported nationality", nationality)
           ELSE getUsers([nat |-> toUpperCase(nationality), results |-> count])

getUsersByNationality ==
    /\ UNCHANGED notClient
    /\ pc = "idle"
    /\ \E nationality \in NatInputs, count \in Counts :
        /\ op' = Called("getUsersByNationality", count, nationality)
        /\ IF toUpperCase(nationality) \notin supportedNationalities
           THEN Reject("Unsupported nationality", nationality)
           ELSE getUsers([nat |-> toUpperCase(nationality), results |-> count])

getUsersWithFields ==
    /\ UNCHANGED notClient
    /\ pc = "idle"
    /\ \E fields \in FieldInputs, count \in Counts :
        /\ op' = Called("getUsersWithFields", count, fields)
        /\ IF Len(invalidFields(fields)) > 0
           THEN Reject("Invalid fields", invalidFields(fields))
           ELSE getUsers([inc |-> join(fields), results |-> count])

getUsersWithoutFields ==
    /\ UNCHANGED notClient
    /\ pc = "idle"
    /\ \E fields \in FieldInputs, count \in Counts :
        /\ op' = Called("getUsersWithoutFields", count, fields)
        /\ IF Len(invalidFields(fields)) > 0
           THEN Reject("Invalid fields", invalidFields(fields))
           ELSE getUsers([exc |-> join(fields), results |-> count])

getUsersWithSeed ==
    /\ UNCHANGED notClient
    /\ pc = "idle"
    /\ \E seed \in Seeds, count \in Counts :
        /\ op' = Called("getUsersWithSeed", count, <<seed>>)
        /\ getUsers([seed |-> seed, results |-> count])

\* A builder builds the client that serves the following requests.
build ==
    /\ UNCHANGED notClient
    /\ pc = "idle"
    /\ \E cfg \in BuilderConfigs : config' = RandomUserApiClient(cfg)
    /\ UNCHANGED <<pc, attempt, params, events, timer, lastError, result, op>>

\* ------------------------------------ the client: several requests in flight

\* The callers that may each have one getUsers call in flight on the client.
Requests == 1..MaxRequests

\* What the network calls of these requests end in when they fail.
FlightFailures ==
    {[kind |-> "http", status |-> 404], [kind |-> "http", status |-> 503],
     [kind |-> "noresponse", status |-> 0]}

\* The state of one call: the locals of getUsers and of the retryRequest
\* frame it stands in (attempt is retryRequest's parameter).
NoFlight ==
    [pc |-> "idle", attempt |-> 0, events |-> <<>>, timer |-> 0,
     lastError |-> NoError, result |-> NoResult]

\* Mutant of retryAttempt: the attempt counter is kept on the client, every
\* retry counts on from the highest attempt of any request in flight.
retryAttemptShared(r) ==
    1 + CHOOSE a \in {inflight[q].attempt : q \in Requests} :
            \A q \in Requests : inflight[q].attempt <= a

\* return this.retryRequest(requestFn, attempt + 1): the caller's own attempt.
retryAttempt(r) == inflight[r].attempt + 1

\* Caller r calls getSingleUser(): retryRequest issues the first network call.
getUsersInFlight ==
    /\ UNCHANGED notFlight
    /\ \E r \in Requests :
        /\ inflight[r].pc = "idle"
        /\ inflight' = [inflight EXCEPT ![r] =
                [NoFlight EXCEPT !.pc = "calling", !.attempt = 1, !.events = <<CallEvent(1)>>]]

\* The pending network call of request r succeeds.
flightSucceeds ==
    /\ UNCHANGED notFlight
    /\ \E r \in Requests :
        /\ inflight[r].pc = "calling"
        /\ inflight' = [inflight EXCEPT
                ![r].pc = "returned",
                ![r].result = Returned(inflight[r].attempt),
                ![r].events = Append(@, OkEvent(inflight[r].attempt))]

\* The pending network call of request r fails: its retryRequest frame
\* rethrows or starts wait(delay).
flightFails ==
    /\ UNCHANGED notFlight
    /\ \E r \in Requests, err \in FlightFailures :
        /\ inflight[r].pc = "calling"
        /\ inflight' = [inflight EXCEPT
                ![r].lastError = err,
                ![r].events = Append(@, FailEvent(inflight[r].attempt)),
                ![r].pc = IF Rethrows(inflight[r].attempt, err) THEN "thrown" ELSE "waiting",
                ![r].timer = IF Rethrows(inflight[r].attempt, err) THEN 0
                             ELSE BackoffDelay(config.retryDelay.v, inflight[r].attempt),
                ![r].result = IF Rethrows(inflight[r].attempt, err)
                              THEN LET h == handleError(err) IN Raised(h.category, h.status, <<>>)
                              ELSE @]

\* The wait of request r resolves: its next attempt's network call is issued.
flightWaitDone ==
    /\ UNCHANGED notFlight
    /\ \E r \in Requests :
        /\ inflight[r].pc = "waiting"
        /\ retryAttempt(r) <= MaxCalls
        /\ inflight' = [inflight EXCEPT
                ![r].pc = "calling",
                ![r].attempt = retryAttempt(r),
                ![r].events = @ \o <<WaitEvent(inflight[r].timer), CallEvent(retryAttempt(r))>>,
                ![r].timer = 0]

\* Caller r receives the payload or the error of its request.
flightSettles ==
    /\ UNCHANGED notFlight
    /\ \E r \in Requests :
        /\ inflight[r].pc \in {"returned", "thrown"}
        /\ inflight' = [inflight EXCEPT ![r] = NoFlight]

\* The callers move on to a newly built client when none has a request in
\* flight on the old one.
buildShared ==
    /\ \A r \in Requests : inflight[r].pc = "idle"
    /\ build

\* ------------------------------------------------- TestCommandInvoker

\* The commands handed to the invoker; a command is identified by reference.
Commands == {"A", "B", "C"}
\* How a command's execute() settles: a TestResult (passed or failed), or the
\* promise rejects. How its undo() settles: resolved, or the promise rejects.
ExecuteOutcomes == {"passed", "failed", "raised"}
UndoOutcomes == {"void", "raised"}

\* What is kept of the call made before the one in progress, when the two are
\* an undo and a redo, in either order.
NoPrevious ==
    [op |-> "none", h0 |-> <<>>, c0 |-> -1, ranExecute |-> <<>>, ranUndo |-> <<>>,
     ret |-> "none"]
Previous(name) ==
    IF <<call.op, name>> \in {<<"undo", "redo">>, <<"redo", "undo">>}
    THEN [op |-> call.op, h0 |-> call.h0, c0 |-> call.c0, ranExecute |-> call.ranExecute,
          ranUndo |-> call.ranUndo, ret |-> call.ret]
    ELSE NoPrevious

NoCall ==
    [op |-> "none", phase |-> "done", cmd |-> "", h0 |-> <<>>, c0 |-> -1,
     ranExecute |-> <<>>, ranUndo |-> <<>>, ret |-> "none", prev |-> NoPrevious]

\* A call entered with history h0 and currentIndex c0, after the call prev.
Enter(name, phase, cmd, ranExecute, ranUndo, ret) ==
    [op |-> name, phase |-> phase, cmd |-> cmd, h0 |-> history, c0 |-> currentIndex,
     ranExecute |-> ranExecute, ranUndo |-> ranUndo, ret |-> ret, prev |-> Previous(name)]

\* The calls made so far: each as the operation, the command handed to it and,
\* for an undo, how it ended. Calls beyond MaxTrace are not told apart.
Overflow == <<[op |-> "more", cmd |-> "", ret |-> ""]>>
Record(name, cmd, ret) ==
    IF trace = Overflow \/ Len(trace) >= MaxTrace
    THEN Overflow
    ELSE Append(trace, [op |-> name, cmd |-> cmd, ret |-> ret])
\* The call in progress is the last one recorded: it ends with ret.
RecordEnd(ret) ==
    IF trace = Overflow THEN trace ELSE [trace EXCEPT ![Len(trace)].ret = ret]

\* Mutant of slice: the history is kept whole, the redo branch is not cut.
sliceKeepsAll(h, c) == h

\* this.history.slice(0, this.currentIndex + 1): a negative end counts from
\* the end of the array, an end beyond the array is the array's length.
slice(h, c) ==
    LET end == IF c + 1 < 0
               THEN (IF Len(h) + c + 1 < 0 THEN 0 ELSE Len(h) + c + 1)
               ELSE (IF c + 1 > Len(h) THEN Len(h) ELSE c + 1)
    IN SubSeq(h, 1, end)

\* this.history[i], JavaScript indices starting at 0.
At(h, i) == h[i + 1]

\* No array handed out by getHistory() is followed: none was handed out, or
\* this.history was assigned a new array since.
NoReturned == [taken |-> FALSE, own |-> FALSE, items |-> <<>>, was |-> <<>>, edits |-> 0]

\* Mutant of getHistory: the invoker's own array is handed out.
getHistorySameArray ==
    [taken |-> TRUE, own |-> TRUE, items |-> history, was |-> history, edits |-> 0]

\* [...this.history]: a new array (own: it is not the invoker's) holding the
\* entries of this.history; was keeps what it held when handed out.
getHistory ==
    [taken |-> TRUE, own |-> FALSE, items |-> history, was |-> history, edits |-> 0]

canUndo == currentIndex >= 0
canRedo == currentIndex < Len(history) - 1

\* executeCommand(command) up to its await: the redo branch is cut, the command
\* is pushed, the index advances and command.execute() is started.
executeCommand ==
    /\ UNCHANGED notInvoker
    /\ call.phase = "done"
    /\ currentIndex + 2 <= MaxHistory  \* the model's bound on the history's length
    /\ \E command \in Commands :
        /\ history' = Append(slice(history, currentIndex), command)
        /\ currentIndex' = currentIndex + 1
        /\ call' = Enter("execute", "executing", command, <<command>>, <<>>, "none")
        /\ trace' = Record("execute", command, "")
        /\ returned' = NoReturned

\* Mutant of undoLastCommand: the newest entry is undone, not the one under the
\* index.
undoLastCommandOfNewest ==
    /\ UNCHANGED notInvoker
    /\ call.phase = "done"
    /\ IF currentIndex >= 0
       THEN LET command == At(history, Len(history) - 1) IN
            call' = Enter("undo", "undoing", command, <<>>, <<command>>, "none")
       ELSE call' = Enter("undo", "done", "", <<>>, <<>>, "void")
    /\ trace' = Record("undo", "", IF currentIndex >= 0 THEN "" ELSE "void")
    /\ UNCHANGED <<history, currentIndex, returned>>

\* undoLastCommand() up to its await: with an entry under the index its undo()
\* is started; with none the call returns at once.
undoLastCommand ==
    /\ UNCHANGED notInvoker
    /\ call.phase = "done"
    /\ IF currentIndex >= 0
       THEN LET command == At(history, currentIndex) IN
            call' = Enter("undo", "undoing", command, <<>>, <<command>>, "none")
       ELSE call' = Enter("undo", "done", "", <<>>, <<>>, "void")
    /\ trace' = Record("undo", "", IF currentIndex >= 0 THEN "" ELSE "void")
    /\ UNCHANGED <<history, currentIndex, returned>>

\* Mutant of redoCommand: the newer entry is executed, the index is left where
\* it was.
redoCommandKeepsIndex ==
    /\ UNCHANGED notInvoker
    /\ call.phase = "done"
    /\ IF currentIndex < Len(history) - 1
       THEN /\ currentIndex' = currentIndex
            /\ LET command == At(history, currentIndex + 1) IN
               call' = Enter("redo", "executing", command, <<command>>, <<>>, "none")
       ELSE /\ currentIndex' = currentIndex
            /\ call' = Enter("redo", "done", "", <<>>, <<>>, "null")
    /\ trace' = Record("redo", "", "")
    /\ UNCHANGED <<history, returned>>

\* redoCommand() up to its await: with a newer entry the index advances and that
\* entry's execute() is started; with none the call returns null.
redoCommand ==
    /\ UNCHANGED notInvoker
    /\ call.phase = "done"
    /\ IF currentIndex < Len(history) - 1
       THEN /\ currentIndex' = currentIndex + 1
            /\ LET command == At(history, currentIndex + 1) IN
               call' = Enter("redo", "executing", command, <<command>>, <<>>, "none")
       ELSE /\ currentIndex' = currentIndex
            /\ call' = Enter("redo", "done", "", <<>>, <<>>, "null")
    /\ trace' = Record("redo", "", "")
    /\ UNCHANGED <<history, returned>>

\* getHistory(): the caller is handed an array of the entries.
getHistoryCall ==
    /\ UNCHANGED notInvoker
    /\ call.phase = "done"
    /\ returned' = getHistory
    /\ call' = Enter("getHistory", "done", "", <<>>, <<>>, "array")
    /\ UNCHANGED <<history, currentIndex, trace>>

\* What a caller does to the array it was handed: push(x), pop(), reverse().
Edits(items) ==
    {Append(items, "X")}
    \cup (IF Len(items) > 0 THEN {SubSeq(items, 1, Len(items) - 1)} ELSE {})
    \cup {[i \in 1..Len(items) |-> items[Len(items) + 1 - i]]}

\* The caller changes the array it was handed, between two calls on the
\* invoker. An array that is the invoker's own changes this.history with it.
editReturned ==
    /\ UNCHANGED notInvoker
    /\ call.phase = "done"
    /\ returned.taken
    /\ returned.edits < MaxEdits
    /\ \E items \in Edits(returned.items) :
        /\ returned' = [returned EXCEPT !.items = items, !.edits = @ + 1]
        /\ history' = IF returned.own THEN items ELSE history
    /\ UNCHANGED <<currentIndex, call, trace>>

\* Mutant of clearHistory: the history is emptied, the index is left as it was.
clearHistoryKeepsIndex ==
    /\ UNCHANGED notInvoker
    /\ call.phase = "done"
    /\ history' = <<>>
    /\ currentIndex' = currentIndex
    /\ call' = Enter("clear", "done", "", <<>>, <<>>, "void")
    /\ trace' = <<>>
    /\ returned' = NoReturned

clearHistory ==
    /\ UNCHANGED notInvoker
    /\ call.phase = "done"
    /\ history' = <<>>
    /\ currentIndex' = -1
    /\ call' = Enter("clear", "done", "", <<>>, <<>>, "void")
    /\ trace' = <<>>
    /\ returned' = NoReturned

\* The awaited command.execute() settles: executeCommand / redoCommand return
\* its TestResult, or reject with what it raised.
executeSettles ==
    /\ UNCHANGED notInvoker
    /\ call.phase = "executing"
    /\ \E outcome \in ExecuteOutcomes : call' = [call EXCEPT !.phase = "done", !.ret = outcome]
    /\ UNCHANGED <<history, currentIndex, trace, returned>>

\* Mutant of undoSettles: the index is left where it was.
undoSettlesKeepsIndex ==
    /\ UNCHANGED notInvoker
    /\ call.phase = "undoing"
    /\ \E outcome \in UndoOutcomes :
        /\ call' = [call EXCEPT !.phase = "done", !.ret = outcome]
        /\ currentIndex' = currentIndex
        /\ trace' = RecordEnd(outcome)
    /\ UNCHANGED <<history, returned>>

\* The awaited command.undo() settles: on success the index steps back, on a
\* rejection undoLastCommand rejects before the decrement.
undoSettles ==
    /\ UNCHANGED notInvoker
    /\ call.phase = "undoing"
    /\ \E outcome \in UndoOutcomes :
        /\ call' = [call EXCEPT !.phase = "done", !.ret = outcome]
        /\ currentIndex' = IF outcome = "void" THEN currentIndex - 1 ELSE currentIndex
        /\ trace' = RecordEnd(outcome)
    /\ UNCHANGED <<history, returned>>

\* ------------------------------------------------- the built-in commands

\* TestResult.error: a message text with the numbers it quotes; for a failure
\* of the client, the error the client raised.
NoMessage == [text |-> "", want |-> 0, got |-> 0, from |-> NoResult]
Message(text, want, got) == [text |-> text, want |-> want, got |-> got, from |-> NoResult]
\* (error as Error).message of what the client call raised
MessageOf(raised) == [text |-> "error.message", want |-> 0, got |-> 0, from |-> raised]

\* What execute() ends with: a TestResult of createTestResult, or a rejection.
Passed == [outcome |-> "passed", error |-> NoMessage]
Failed(error) == [outcome |-> "failed", error |-> error]
Rejected(raised) == [outcome |-> "raised", error |-> MessageOf(raised)]

\* response.data as the commands read it: whether it has a results array, the
\* array's length and the genders found in it.
NoPayload == [results |-> "none", length |-> 0, genders |-> {}]
Payloads(count) ==
    {[results |-> "missing", length |-> 0, genders |-> {}]}
    \cup {p \in [results : {"array"}, length : {0, 1, 2, count}, genders : SUBSET Genders] :
            /\ p.length >= 0
            /\ p.length = 0 <=> p.genders = {}
            /\ p.length = 1 => Cardinality(p.genders) = 1}

\* Reading results.length of a payload without results raises a TypeError
\* inside the try block.
TypeError == Message("TypeError", 0, 0)

\* FetchSingleUserCommand.execute after the client call returned.
CheckSingleUser(payload) ==
    IF payload.results = "missing" THEN Failed(TypeError)
    ELSE IF payload.length = 1 THEN Passed
    ELSE Failed(Message("Expected 1 user, got", 1, payload.length))

\* FetchMultipleUsersCommand.execute after the client call returned.
CheckMultipleUsers(count, payload) ==
    IF payload.results = "missing" THEN Failed(TypeError)
    ELSE IF payload.length = count THEN Passed
    ELSE Failed(Message("Expected users, got", count, payload.length))

\* FetchUsersByGenderCommand.execute after the client call returned.
CheckUsersByGender(gender, count, payload) ==
    IF payload.results = "missing" THEN Failed(TypeError)
    ELSE LET allCorrectGender == payload.genders \subseteq {gender} IN
         IF payload.length = count /\ allCorrectGender THEN Passed
         ELSE IF ~allCorrectGender
              THEN Failed(Message("Not all users have correct gender", 0, 0))
              ELSE Failed(Message("Expected users, got", count, payload.length))

\* PerformanceTestCommand.execute after the operation returned.
CheckPerformance(duration, maxDuration) ==
    IF duration <= maxDuration THEN Passed
    ELSE Failed(Message("Operation took ms, expected <=", maxDuration, duration))

\* Mutant of Caught: the failure of the client call is raised again.
CaughtRethrown(raised) == Rejected(raised)

\* catch (error): a failed TestResult carrying error.message.
Caught(raised) == Failed(MessageOf(raised))

\* The milliseconds the completed waits of the request took together.
RECURSIVE SumWaits(_)
SumWaits(evs) ==
    IF evs = <<>> THEN 0
    ELSE (IF Head(evs).e = "wait" THEN Head(evs).n ELSE 0) + SumWaits(Tail(evs))

\* Date.now() - this.startTime: no less than the waits took.
Durations(waited) ==
    {waited, waited + 1} \cup {d \in {DefaultMaxDuration, DefaultMaxDuration + 1} : d >= waited}

NoExecution ==
    [kind |-> "none", count |-> 0, gender |-> "", phase |-> "none", client |-> NoResult,
     payload |-> NoPayload, duration |-> 0, made |-> 0, outcome |-> "none", error |-> NoMessage]

\* execute() is entered: startTime is taken and the client call is awaited.
Started(kind, count, gender) ==
    [NoExecution EXCEPT !.kind = kind, !.count = count, !.gender = gender, !.phase = "started"]

FetchSingleUserCommand ==
    /\ UNCHANGED notCommand
    /\ pc = "idle"
    /\ execution' = Started("FetchSingleUser", 1, "")
    /\ getSingleUserBody

FetchMultipleUsersCommand ==
    /\ UNCHANGED notCommand
    /\ pc = "idle"
    /\ \E count \in Counts :
        /\ execution' = Started("FetchMultipleUsers", count, "")
        /\ getMultipleUsersBody(count)

FetchUsersByGenderCommand ==
    /\ UNCHANGED notCommand
    /\ pc = "idle"
    /\ \E gender \in Genders, count \in Counts :
        /\ execution' = Started("FetchUsersByGender", count, gender)
        /\ getUsersByGenderBody(gender, count)

\* A PerformanceTestCommand of the default maxDuration whose operation is
\* () => client.getMultipleUsers(count).
PerformanceTestCommand ==
    /\ UNCHANGED notCommand
    /\ pc = "idle"
    /\ \E count \in Counts :
        /\ execution' = Started("PerformanceTest", count, "")
        /\ getMultipleUsersBody(count)

\* The awaited client call settles and execute() ends: the catch block for an
\* error, the command's check for a response.
commandSettles ==
    /\ UNCHANGED notCommand
    /\ execution.phase = "started"
    /\ pc \in {"returned", "thrown"}
    /\ \E payload \in Payloads(execution.count), duration \in Durations(SumWaits(events)) :
        LET end ==
                IF result.state = "raised" THEN Caught(result)
                ELSE CASE execution.kind = "FetchSingleUser" -> CheckSingleUser(payload)
                       [] execution.kind = "FetchMultipleUsers" ->
                            CheckMultipleUsers(execution.count, payload)
                       [] execution.kind = "FetchUsersByGender" ->
                            CheckUsersByGender(execution.gender, execution.count, payload)
                       [] execution.kind = "PerformanceTest" ->
                            CheckPerformance(duration, DefaultMaxDuration)
        IN execution' =
            [execution EXCEPT
                !.phase = "done",
                !.client = result,
                !.payload = IF result.state = "raised" THEN NoPayload ELSE payload,
                !.duration = duration,
                !.made = IF end.outcome = "raised" THEN @ ELSE @ + 1,
                !.outcome = end.outcome,
                !.error = end.error]
    /\ Received

\* ------------------------------------------------- MacroTestCommand

\* The commands given to a macro, by name; one may be given more than once.
SubCommands == {"a", "b"}
\* How a sub-command's execute() settles: a TestResult of that status, or a
\* rejection. How its undo() settles is UndoOutcomes.
SubOutcomes == {"passed", "failed", "skipped", "raised"}

NoMacroError == [text |-> "", of |-> ""]
\* `Command ${command.getCommandName()} failed: ${result.error}`
CommandFailed(name) == [text |-> "Command failed:", of |-> name]
\* (error as Error).message of what the sub-command raised
RaisedMessage == [text |-> "error.message", of |-> ""]

\* new MacroTestCommand(name, description, commands)
MacroTestCommand(commands) ==
    [commands |-> commands, op |-> "none", phase |-> "done", i |-> -1,
     ranExecute |-> <<>>, results |-> <<>>, ranUndo |-> <<>>, ret |-> "none",
     error |-> NoMacroError]

\* Mutant of Stops: the loop goes on after a failed sub-result.
StopsNever(status) == FALSE

\* if (result.status === 'failed') return ...
Stops(status) == status = "failed"

newMacro ==
    /\ UNCHANGED notMacro
    /\ macro.phase = "done"
    /\ \E n \in 0..MaxSubCommands : \E commands \in [1..n -> SubCommands] :
        macro' = MacroTestCommand(commands)

\* addCommand(command), between two calls of the macro: op no longer names
\* the call that ended before.
addCommand ==
    /\ UNCHANGED notMacro
    /\ macro.phase = "done"
    /\ Len(macro.commands) < MaxSubCommands
    /\ \E command \in SubCommands :
        macro' = [macro EXCEPT !.commands = Append(@, command), !.op = "none"]

\* execute() up to its first await: with no sub-command the loop is skipped
\* and passed is returned; otherwise the first sub-command's execute() starts.
macroExecute ==
    /\ UNCHANGED notMacro
    /\ macro.phase = "done"
    /\ IF Len(macro.commands) = 0
       THEN macro' = [MacroTestCommand(macro.commands) EXCEPT
                        !.op = "execute", !.ret = "passed", !.ranUndo = macro.ranUndo]
       ELSE macro' = [MacroTestCommand(macro.commands) EXCEPT
                        !.op = "execute", !.phase = "awaiting", !.i = 0,
                        !.ranExecute = <<At(macro.commands, 0)>>,
                        !.ranUndo = macro.ranUndo]

\* The awaited sub-command's execute() settles: a rejection reaches the catch
\* block; a failed result ends the loop; any other result is kept and the
\* next sub-command starts, or passed is returned after the last.
subExecuteSettles ==
    /\ UNCHANGED notMacro
    /\ macro.op = "execute"
    /\ macro.phase = "awaiting"
    /\ \E outcome \in SubOutcomes :
        IF outcome = "raised"
        THEN macro' = [macro EXCEPT !.phase = "done", !.ret = "failed", !.error = RaisedMessage]
        ELSE IF Stops(outcome)
        THEN macro' = [macro EXCEPT !.phase = "done", !.ret = "failed",
                                    !.results = Append(@, outcome),
                                    !.error = CommandFailed(At(macro.commands, macro.i))]
        ELSE IF macro.i + 1 < Len(macro.commands)
        THEN macro' = [macro EXCEPT !.i = @ + 1,
                                    !.results = Append(@, outcome),
                                    !.ranExecute = Append(@, At(macro.commands, macro.i + 1))]
        ELSE macro' = [macro EXCEPT !.phase = "done", !.ret = "passed",
                                    !.results = Append(@, outcome)]

\* undo() up to its first await: the loop starts at the last sub-command.
macroUndo ==
    /\ UNCHANGED notMacro
    /\ macro.phase = "done"
    /\ LET last == Len(macro.commands) - 1 IN
       IF last < 0
       THEN macro' = [macro EXCEPT !.op = "undo", !.i = -1, !.ranUndo = <<>>,
                                   !.ret = "void", !.error = NoMacroError]
       ELSE macro' = [macro EXCEPT !.op = "undo", !.phase = "awaiting", !.i = last,
                                   !.ranUndo = <<At(macro.commands, last)>>,
                                   !.ret = "none", !.error = NoMacroError]

\* The awaited sub-command's undo() settles: the loop steps to the one before
\* it, or returns after the first; a rejection ends undo() at once.
subUndoSettles ==
    /\ UNCHANGED notMacro
    /\ macro.op = "undo"
    /\ macro.phase = "awaiting"
    /\ \E outcome \in UndoOutcomes :
        IF outcome = "raised"
        THEN macro' = [macro EXCEPT !.phase = "done", !.ret = "raised", !.error = RaisedMessage]
        ELSE IF macro.i > 0
        THEN macro' = [macro EXCEPT !.i = @ - 1,
                                    !.ranUndo = Append(@, At(macro.commands, macro.i - 1))]
        ELSE macro' = [macro EXCEPT !.phase = "done", !.ret = "void"]

\* ------------------------------------------------- TestResultNotifier

\* The observers there are, by reference.
Observers == {"o1", "o2", "o3"}
Handlers == {"onTestStart", "onTestComplete", "onSuiteComplete"}
\* How a handler ends.
HandlerOutcomes == {"returns", "throws"}

\* list is the array as forEach found it, changes what the handlers of this
\* fan-out did to the array since.
NoNotification ==
    [op |-> "none", phase |-> "done", list |-> <<>>, i |-> 0, delivered |-> <<>>, ret |-> "none",
     changes |-> <<>>]

\* No removeObserver call is remembered: none was made, or its observer was
\* subscribed again since.
NoRemoved == [observer |-> "", count |-> 0]

\* this.observers.indexOf(observer), -1 when it is not in the array
indexOf(array, observer) ==
    IF \E k \in DOMAIN array : array[k] = observer
    THEN (CHOOSE k \in DOMAIN array :
            array[k] = observer /\ \A j \in 1..(k - 1) : array[j] # observer) - 1
    ELSE -1

\* array.splice(index, 1)
splice(array, index) == SubSeq(array, 1, index) \o SubSeq(array, index + 2, Len(array))

\* addObserver(observer): pushed, whether or not it is in the array already.
addObserver ==
    /\ UNCHANGED notNotifier
    /\ notification.phase = "done"
    /\ Len(observers) < MaxObservers
    /\ \E observer \in Observers :
        /\ observers' = Append(observers, observer)
        /\ removed' = IF removed.observer = observer THEN NoRemoved ELSE removed
    /\ UNCHANGED notification

\* removeObserver(observer): its first occurrence is spliced out, if any.
removeObserver ==
    /\ UNCHANGED notNotifier
    /\ notification.phase = "done"
    /\ \E observer \in Observers :
        LET index == indexOf(observers, observer) IN
        /\ observers' = IF index > -1 THEN splice(observers, index) ELSE observers
        /\ removed' = [observer |-> observer,
                       count |-> Cardinality({k \in DOMAIN observers : observers[k] = observer})]
    /\ UNCHANGED notification

\* this.observers.forEach(...) is entered: with no observer it returns at once.
forEach(handler) ==
    /\ notification.phase = "done"
    /\ notification' =
        [op |-> handler, phase |-> IF Len(observers) = 0 THEN "done" ELSE "running",
         list |-> observers, i |-> 0, delivered |-> <<>>,
         ret |-> IF Len(observers) = 0 THEN "void" ELSE "none", changes |-> <<>>]
    /\ UNCHANGED <<observers, removed>>

notifyTestStart == UNCHANGED notNotifier /\ forEach("onTestStart")
notifyTestComplete == UNCHANGED notNotifier /\ forEach("onTestComplete")
notifySuiteComplete == UNCHANGED notNotifier /\ forEach("onSuiteComplete")

\* One round of forEach: the handler of the observer at index i is invoked. When
\* it returns the loop goes on, or ends after the last index (forEach reads the
\* array's length once, when it starts, and skips indices the array has no
\* more); when it throws, forEach and the notify call end with what it threw.
handlerRuns ==
    /\ UNCHANGED notNotifier
    /\ notification.phase = "running"
    /\ \E outcome \in HandlerOutcomes :
        LET observer == At(observers, notification.i)
            invoked == Append(notification.delivered, [observer |-> observer, handler |-> notification.op])
        IN IF outcome = "throws"
           THEN notification' = [notification EXCEPT !.delivered = invoked, !.phase = "done", !.ret = "raised"]
           ELSE IF notification.i + 1 < Len(notification.list) /\ notification.i + 1 < Len(observers)
           THEN notification' = [notification EXCEPT !.delivered = invoked, !.i = @ + 1]
           ELSE notification' = [notification EXCEPT !.delivered = invoked, !.i = @ + 1,
                                                     !.phase = "done", !.ret = "void"]
    /\ UNCHANGED <<observers, removed>>

\* forEach after a handler that changed the array returned: the loop runs to
\* the length it read when it started and visits the indices the array still
\* has, each with the element that is under it now.
Resume(invoked, array, change) ==
    IF notification.i + 1 < Len(notification.list) /\ notification.i + 1 < Len(array)
    THEN [notification EXCEPT !.delivered = invoked, !.i = @ + 1,
                              !.changes = Append(@, change)]
    ELSE [notification EXCEPT !.delivered = invoked, !.i = @ + 1,
                              !.changes = Append(@, change),
                              !.phase = "done", !.ret = "void"]

\* One round of forEach whose handler calls removeObserver(observer), on itself
\* or on another observer, and returns.
handlerUnsubscribes ==
    /\ UNCHANGED notNotifier
    /\ notification.phase = "running"
    /\ \E observer \in Observers :
        LET index == indexOf(observers, observer)
            array == IF index > -1 THEN splice(observers, index) ELSE observers
            invoked == Append(notification.delivered,
                              [observer |-> At(observers, notification.i), handler |-> notification.op])
        IN /\ observers' = array
           /\ removed' = [observer |-> observer,
                          count |-> Cardinality({k \in DOMAIN observers : observers[k] = observer})]
           /\ notification' = Resume(invoked, array, [op |-> "remove", observer |-> observer])

\* One round of forEach whose handler calls addObserver(observer) and returns.
handlerSubscribes ==
    /\ UNCHANGED notNotifier
    /\ notification.phase = "running"
    /\ Len(observers) < MaxObservers
    /\ \E observer \in Observers :
        LET array == Append(observers, observer)
            invoked == Append(notification.delivered,
                              [observer |-> At(observers, notification.i), handler |-> notification.op])
        IN /\ observers' = array
           /\ removed' = IF removed.observer = observer THEN NoRemoved ELSE removed
           /\ notification' = Resume(invoked, array, [op |-> "add", observer |-> observer])

\* ------------------------------------------ CompositeValidationStrategy

\* The sub-strategies there are, by name.
Strategies == {"s1", "s2"}

\* What a sub-strategy's validate(data) does: it returns a ValidationResult,
\* valid with no errors or invalid with its errors, or it raises (a TypeError
\* on data that lacks what the strategy reads).
Valid == [kind |-> "result", isValid |-> TRUE, errors |-> <<>>]
Invalid(errors) == [kind |-> "result", isValid |-> FALSE, errors |-> errors]
Raises == [kind |-> "raised", isValid |-> FALSE, errors |-> <<>>]
SubResults == {Valid, Invalid(<<"x">>), Invalid(<<"y">>), Invalid(<<"x", "y">>), Raises}

\* The data handed to validate, as what each sub-strategy does on it.
Data == [Strategies -> SubResults]

\* One round of the loop of validate: strategy.validate(data) is called; an
\* invalid result clears allValid and has its errors pushed.
body(acc, strategy, data) ==
    LET subResult == data[strategy] IN
    IF subResult.kind = "raised"
    THEN [acc EXCEPT !.raised = TRUE, !.ran = Append(@, strategy)]
    ELSE IF ~subResult.isValid
    THEN [acc EXCEPT !.allValid = FALSE, !.allErrors = @ \o subResult.errors,
                     !.ran = Append(@, strategy)]
    ELSE [acc EXCEPT !.ran = Append(@, strategy)]

\* for (const strategy of this.strategies): an exception ends the loop.
RECURSIVE forOf(_, _, _)
forOf(strategies, data, acc) ==
    IF strategies = <<>> \/ acc.raised THEN acc
    ELSE forOf(Tail(strategies), data, body(acc, Head(strategies), data))

\* validate(data): the composite's result, or what a sub-strategy raised; ran
\* lists the sub-strategies whose validate was called.
validate(strategies, data) ==
    LET acc == forOf(strategies, data,
                     [allValid |-> TRUE, allErrors |-> <<>>, raised |-> FALSE, ran |-> <<>>])
    IN IF acc.raised
       THEN [kind |-> "raised", isValid |-> FALSE, errors |-> <<>>, field |-> "", ran |-> acc.ran]
       ELSE [kind |-> "result", isValid |-> acc.allValid, errors |-> acc.allErrors,
             field |-> "composite", ran |-> acc.ran]

NoValidation ==
    [op |-> "none", strategies |-> <<>>, data |-> [s \in Strategies |-> Valid],
     kind |-> "none", isValid |-> FALSE, errors |-> <<>>, field |-> "", ran |-> <<>>]

\* new CompositeValidationStrategy(strategies)
newComposite ==
    /\ UNCHANGED notValidator
    /\ \E n \in 0..MaxStrategies : \E strategies \in [1..n -> Strategies] :
        composite' = strategies
    /\ validation' = NoValidation

addStrategy ==
    /\ UNCHANGED notValidator
    /\ Len(composite) < MaxStrategies
    /\ \E strategy \in Strategies : composite' = Append(composite, strategy)
    /\ validation' = NoValidation

\* removeStrategy(strategyName): every sub-strategy of that name is dropped.
removeStrategy ==
    /\ UNCHANGED notValidator
    /\ \E strategyName \in Strategies :
        composite' = SelectSeq(composite, LAMBDA strategy : strategy # strategyName)
    /\ validation' = NoValidation

compositeValidate ==
    /\ UNCHANGED notValidator
    /\ \E data \in Data :
        LET r == validate(composite, data) IN
        validation' = [op |-> "validate", strategies |-> composite, data |-> data,
                       kind |-> r.kind, isValid |-> r.isValid, errors |-> r.errors,
                       field |-> r.field, ran |-> r.ran]
    /\ UNCHANGED composite

\* ------------------------------------- UserStructureValidationStrategy

\* this.requiredFields
requiredFields ==
    <<"gender", "name", "location", "email", "login", "dob",
      "registered", "phone", "cell", "id", "picture", "nat">>

\* What a record holds under a field: no own property, undefined, null, a
\* non-empty string, or an object with two sub-fields (first and last, city
\* and country), each absent, an empty string or a non-empty string.
Value(kind, a, b) == [kind |-> kind, a |-> a, b |-> b]
Scalar(kind) == Value(kind, "none", "none")
SubValues == {"absent", "empty", "text"}
ScalarValues == {Scalar(kind) : kind \in {"absent", "undefined", "null", "string"}}
NestedValues == ScalarValues \cup {Value("object", a, b) : a \in SubValues, b \in SubValues}

\* The records handed to validate: every field but email, name and location
\* holds a string.
Users ==
    {[field \in {requiredFields[k] : k \in DOMAIN requiredFields} |->
        CASE field = "email" -> email
          [] field = "name" -> name
          [] field = "location" -> location
          [] OTHER -> Scalar("string")] :
        email \in ScalarValues, name \in NestedValues, location \in NestedValues}

\* !user.hasOwnProperty(field) || user[field] === undefined
IsMissing(value) == value.kind \in {"absent", "undefined"}
\* user.name && typeof user.name === 'object'
IsTruthyObject(value) == value.kind = "object"
\* !user.name.first: undefined and the empty string are falsy
IsFalsySub(sub) == sub \in {"absent", "empty"}

MissingField(field) == [text |-> "Missing required field:", field |-> field]
NameError == [text |-> "Name must have first and last properties", field |-> ""]
LocationError == [text |-> "Location must have city and country properties", field |-> ""]

\* this.requiredFields.forEach: one error for each field that is missing.
RECURSIVE missingErrors(_, _)
missingErrors(fields, user) ==
    IF fields = <<>> THEN <<>>
    ELSE (IF IsMissing(user[Head(fields)]) THEN <<MissingField(Head(fields))>> ELSE <<>>)
         \o missingErrors(Tail(fields), user)

\* The check of the two sub-fields of a field that holds an object.
nestedErrors(value, error) ==
    IF IsTruthyObject(value) /\ (IsFalsySub(value.a) \/ IsFalsySub(value.b))
    THEN <<error>>
    ELSE <<>>

\* UserStructureValidationStrategy.validate(user)
validateUser(user) ==
    LET errors == missingErrors(requiredFields, user)
                  \o nestedErrors(user["name"], NameError)
                  \o nestedErrors(user["location"], LocationError)
    IN [isValid |-> Len(errors) = 0, errors |-> errors, field |-> "user"]

NoChecked == [done |-> FALSE, user |-> [field \in {} |-> Scalar("absent")],
              isValid |-> FALSE, errors |-> <<>>, field |-> ""]

userStructureValidate ==
    /\ UNCHANGED notStructure
    /\ \E user \in Users :
        LET r == validateUser(user) IN
        checked' = [done |-> TRUE, user |-> user, isValid |-> r.isValid,
                    errors |-> r.errors, field |-> r.field]

\* ------------------------------------------- the built-in strategies

\* The data handed to a strategy: null, undefined, a string (the sequence of
\* its characters), or an object: a person record, a coordinates object, a
\* response envelope.
Null == [t |-> "null", v |-> <<>>]
Undefined == [t |-> "undefined", v |-> <<>>]
Str(chars) == [t |-> "string", v |-> chars]
Object(class, v) == [t |-> class, v |-> v]

\* String(data), as RegExp.prototype.test converts its argument.
toString(data) ==
    CASE data.t = "string" -> data.v
      [] data.t = "null" -> <<"n", "u", "l", "l">>
      [] data.t = "undefined" -> <<"u", "n", "d", "e", "f", "i", "n", "e", "d">>
      [] OTHER -> <<"[", "o", "b", "j", "e", "c", "t", " ", "O", "b", "j", "e", "c", "t", "]">>

\* [^\s@]+ matches the whole of str
NoSpaceNoAt(str) == Len(str) >= 1 /\ \A k \in DOMAIN str : str[k] \notin {" ", "@"}

\* /^[^\s@]+@[^\s@]+\.[^\s@]+$/.test(email)
isValidEmail(email) ==
    LET str == toString(email) IN
    \E at \in DOMAIN str, dot \in DOMAIN str :
        /\ at < dot
        /\ str[at] = "@"
        /\ str[dot] = "."
        /\ NoSpaceNoAt(SubSeq(str, 1, at - 1))
        /\ NoSpaceNoAt(SubSeq(str, at + 1, dot - 1))
        /\ NoSpaceNoAt(SubSeq(str, dot + 1, Len(str)))

HexDigits ==
    {"0", "1", "2", "3", "4", "5", "6", "7", "8", "9",
     "a", "b", "c", "d", "e", "f", "A", "B", "C", "D", "E", "F"}

\* /^[0-9a-f]{8}-[0-9a-f]{4}-[0-9a-f]{4}-[0-9a-f]{4}-[0-9a-f]{12}$/i.test(uuid)
isValidUUID(uuid) ==
    LET str == toString(uuid) IN
    /\ Len(str) = 36
    /\ \A k \in DOMAIN str :
        IF k \in {9, 14, 19, 24} THEN str[k] = "-" ELSE str[k] \in HexDigits

\* parseFloat(str) of a string without fraction or exponent; of undefined, NaN.
parseFloat(str) == parseInt(str)

\* isValidCoordinate(latitude, longitude)
isValidCoordinate(latitude, longitude) ==
    LET lat == parseFloat(latitude)
        lon == parseFloat(longitude)
    IN /\ lat.t = "num"
       /\ lon.t = "num"
       /\ lat.v >= 0 - 90 /\ lat.v <= 90
       /\ lon.v >= 0 - 180 /\ lon.v <= 180

\* One error message, with what it names.
ErrorOf(text) == [text |-> text, field |-> ""]

\* EmailValidationStrategy.validate(email)
EmailValidation(data) ==
    IF isValidEmail(data) THEN Valid ELSE Invalid(<<ErrorOf("Invalid email format")>>)

\* UUIDValidationStrategy.validate(uuid)
UUIDValidation(data) ==
    IF isValidUUID(data) THEN Valid ELSE Invalid(<<ErrorOf("Invalid UUID format")>>)

\* CoordinateValidationStrategy.validate(coordinates): reading a property of
\* null or undefined raises a TypeError; a value without latitude and
\* longitude gives parseFloat(undefined), which is NaN.
CoordinateValidation(data) ==
    IF data.t \in {"null", "undefined"} THEN Raises
    ELSE IF data.t = "coordinates" /\ isValidCoordinate(data.v.latitude, data.v.longitude)
    THEN Valid
    ELSE Invalid(<<ErrorOf("Invalid coordinates")>>)

\* UserStructureValidationStrategy.validate(user): user.hasOwnProperty raises
\* a TypeError on null and undefined; a value that is no person record has
\* none of the required fields.
UserStructureValidation(data) ==
    IF data.t \in {"null", "undefined"} THEN Raises
    ELSE LET r == IF data.t = "person" THEN validateUser(data.v.fields)
                  ELSE validateUser([k \in {requiredFields[i] : i \in DOMAIN requiredFields} |->
                                        Scalar("absent")])
         IN IF r.isValid THEN Valid ELSE Invalid(r.errors)

\* What an attribute of a response envelope holds, by its type.
TypeOfNumber(kind) == kind = "number"
TypeOfString(kind) == kind = "string"

\* The checks of response.info when it is an object.
infoErrors(info) ==
    (IF ~TypeOfNumber(info.results) THEN <<ErrorOf("Info must have results number")>> ELSE <<>>)
    \o (IF ~TypeOfNumber(info.page) THEN <<ErrorOf("Info must have page number")>> ELSE <<>>)
    \o (IF ~TypeOfString(info.seed) THEN <<ErrorOf("Info must have seed string")>> ELSE <<>>)

\* ResponseStructureValidationStrategy.validate(response): response.results
\* raises a TypeError on null and undefined; a value that is no envelope has
\* neither results nor info.
ResponseStructureValidation(data) ==
    IF data.t \in {"null", "undefined"} THEN Raises
    ELSE LET results == IF data.t = "envelope" THEN data.v.results ELSE "absent"
             info == IF data.t = "envelope" THEN data.v.info ELSE "absent"
             errors ==
                (IF results # "array" THEN <<ErrorOf("Response must have results array")>> ELSE <<>>)
                \o (IF info # "object" THEN <<ErrorOf("Response must have info object")>>
                    ELSE infoErrors(data.v.infoOf))
         IN IF Len(errors) = 0 THEN Valid ELSE Invalid(errors)

\* ValidationStrategyFactory.createFullUserValidator(): the sub-strategies of
\* the composite, by getStrategyName().
createFullUserValidator == <<"UserStructureValidation", "EmailValidation", "UUIDValidation">>

\* strategy.validate(data) for the sub-strategy of that name.
SubValidate(strategy, data) ==
    CASE strategy = "UserStructureValidation" -> UserStructureValidation(data)
      [] strategy = "EmailValidation" -> EmailValidation(data)
      [] strategy = "UUIDValidation" -> UUIDValidation(data)

\* The composite of createFullUserValidator() run on data: every sub-strategy
\* is handed the same data.
FullUserValidation(data) ==
    validate(createFullUserValidator,
             [strategy \in {createFullUserValidator[k] : k \in DOMAIN createFullUserValidator} |->
                SubValidate(strategy, data)])

\* The data supplied in the model.
BasicData == {Null, Undefined, Str(<<>>)}
EmailStrings == {<<"a", "@", "b", ".", "c">>, <<"a", "@", "b">>, <<"a", " ", "@", "b", ".", "c">>}
UuidOf(char) == [k \in 1..36 |-> IF k \in {9, 14, 19, 24} THEN "-" ELSE char]
UuidStrings == {UuidOf("a"), UuidOf("F"), UuidOf("g"), SubSeq(UuidOf("0"), 1, 35)}
CompleteObject == Value("object", "text", "text")
PersonShapes ==
    {user \in Users :
        /\ user["email"].kind \in {"string", "absent"}
        /\ user["name"] \in {CompleteObject, Value("object", "absent", "text"), Scalar("null")}
        /\ user["location"] \in {CompleteObject, Value("object", "text", "empty"), Scalar("string")}}
Persons ==
    {Object("person", [fields |-> fields, email |-> email, uuid |-> uuid]) :
        fields \in PersonShapes, email \in EmailStrings, uuid \in {UuidOf("a"), UuidOf("g")}}
CoordinateStrings == {<<"0">>, <<"9", "0">>, <<"9", "1">>, <<"-", "1", "8", "0">>, <<"a", "b", "c">>}
Coordinates ==
    {Object("coordinates", [latitude |-> latitude, longitude |-> longitude]) :
        latitude \in CoordinateStrings, longitude \in CoordinateStrings}
AttributeKinds == {"absent", "number", "string"}
NoInfo == [results |-> "absent", page |-> "absent", seed |-> "absent", version |-> "absent"]
Envelopes ==
    {Object("envelope", [results |-> results, info |-> info, infoOf |-> NoInfo]) :
        results \in {"absent", "array", "string"}, info \in {"absent", "null"}}
    \cup {Object("envelope", [results |-> results, info |-> "object", infoOf |-> infoOf]) :
            results \in {"absent", "array", "string"},
            infoOf \in [results : AttributeKinds, page : AttributeKinds,
                        seed : AttributeKinds, version : AttributeKinds]}

NoValidated == [strategy |-> "", data |-> Null, kind |-> "none", isValid |-> FALSE, errors |-> <<>>]

\* The call strategy.validate(data) with what it returned or that it raised.
Ran(strategy, data, r) ==
    validated' = [strategy |-> strategy, data |-> data, kind |-> r.kind,
                isValid |-> r.isValid, errors |-> r.errors]

emailValidate ==
    /\ UNCHANGED notStrategy
    /\ \E data \in BasicData \cup {Str(email) : email \in EmailStrings} \cup Coordinates :
        Ran("EmailValidation", data, EmailValidation(data))

uuidValidate ==
    /\ UNCHANGED notStrategy
    /\ \E data \in BasicData \cup {Str(uuid) : uuid \in UuidStrings} \cup Coordinates :
        Ran("UUIDValidation", data, UUIDValidation(data))

coordinateValidate ==
    /\ UNCHANGED notStrategy
    /\ \E data \in BasicData \cup Coordinates :
        Ran("CoordinateValidation", data, CoordinateValidation(data))

structureValidate ==
    /\ UNCHANGED notStrategy
    /\ \E data \in BasicData \cup Persons \cup Coordinates :
        Ran("UserStructureValidation", data, UserStructureValidation(data))

responseValidate ==
    /\ UNCHANGED notStrategy
    /\ \E data \in BasicData \cup Envelopes :
        Ran("ResponseStructureValidation", data, ResponseStructureValidation(data))

fullUserValidate ==
    /\ UNCHANGED notStrategy
    /\ \E data \in BasicData \cup Persons :
        Ran("FullUserValidation", data, FullUserValidation(data))

\* ------------------------------------------------- MetricsTestObserver

\* The results delivered: TestResult.testName, status and duration (the
\* milliseconds between two Date.now() readings).
TestNames == {"t1", "t2"}
ResultStatuses == {"passed", "failed", "skipped"}
ResultDurations == {0, 4, 5}

\* Infinity, and a duration as a value that may be Infinity.
Infinity == [t |-> "inf", v |-> 0]
\* d < x for an integer d
LessThan(d, x) == x.t = "inf" \/ d < x.v

RECURSIVE gcd(_, _)
gcd(a, b) == IF b = 0 THEN a ELSE gcd(b, a % b)

RECURSIVE log2(_, _)
\* The largest e with den * 2^e <= num, for num >= den >= 1.
log2(num, den) == IF num < 2 * den THEN 0 ELSE 1 + log2(num, 2 * den)

\* floor(log2(num / den)) for num, den >= 1, which is negative below 1.
Exponent(num, den) ==
    IF num >= den THEN log2(num, den)
    ELSE LET up == log2(den, num) IN IF num * 2 ^ up = den THEN 0 - up ELSE 0 - up - 1

RECURSIVE PowMod(_, _, _)
\* (x * 2^k) modulo den
PowMod(x, k, den) == IF k = 0 THEN x % den ELSE PowMod((2 * x) % den, k - 1, den)

\* a / b in double-precision arithmetic, for integers a >= 0 and b >= 1: the
\* double nearest to the quotient, written as the quotient in lowest terms
\* (two such quotients of small integers never round to the same double).
Divide(a, b) == [num |-> a \div gcd(a, b), den |-> b \div gcd(a, b)]

\* How far the double x = Divide(a, b) lies from the quotient it stands for:
\* x = (num * 2^k - r) / (den * 2^k) with the 53-bit significand
\* (num * 2^k - r) / den, k = 52 - floor(log2(num / den)), and r the
\* remainder of num * 2^k by den taken nearest to 0.
RoundingRemainder(x) ==
    LET k == 52 - Exponent(x.num, x.den)
        rem == PowMod(x.num, k, x.den)
    IN IF 2 * rem <= x.den THEN rem ELSE rem - x.den

\* x * n = c in double-precision arithmetic, for a double x = Divide(a, b)
\* and integers n, c >= 1: the exact product is c - g * r / 2^k (n = g * den),
\* and it rounds to c when it lies no further from c than half the gap to the
\* next double on its side (2^(e-53), and 2^(e-54) below a power of two,
\* where 2^e <= c < 2^(e+1)).
TimesIs(x, n, c) ==
    IF x.num = 0 \/ c = 0 THEN x.num = 0 /\ c = 0
    ELSE /\ n * x.num = c * x.den
         /\ LET g == n \div x.den
                r == RoundingRemainder(x)
                e == Exponent(c, 1)
                f == Exponent(x.num, x.den)
            IN IF r > 0 /\ c = 2 ^ e
               THEN 4 * g * r <= 2 ^ (e - f)
               ELSE 2 * g * (IF r < 0 THEN 0 - r ELSE r) <= 2 ^ (e - f)

\* private metrics = { ... }, also what reset() assigns
NewMetrics ==
    [totalTests |-> 0, passedTests |-> 0, failedTests |-> 0, skippedTests |-> 0,
     totalDuration |-> 0, averageDuration |-> Divide(0, 1),
     slowestTest |-> [name |-> "", duration |-> 0],
     fastestTest |-> [name |-> "", duration |-> Infinity]]

NoneSeen == [events |-> 0, duration |-> 0, results |-> {}]

\* The counter the switch on result.status increments.
CounterOf(status) ==
    CASE status = "passed" -> "passedTests"
      [] status = "failed" -> "failedTests"
      [] status = "skipped" -> "skippedTests"

\* Mutant of Tally: the average is taken before this result is counted in.
TallyAverageFirst(m, name, status, duration) ==
    LET counted == [m EXCEPT !.totalTests = @ + 1,
                             !.totalDuration = @ + duration,
                             ![CounterOf(status)] = @ + 1]
    IN [counted EXCEPT
            !.slowestTest = IF duration > m.slowestTest.duration
                            THEN [name |-> name, duration |-> duration] ELSE @,
            !.fastestTest = IF LessThan(duration, m.fastestTest.duration)
                            THEN [name |-> name, duration |-> Num(duration)] ELSE @,
            !.averageDuration = IF m.totalTests = 0 THEN Divide(0, 1)
                                ELSE Divide(m.totalDuration, m.totalTests)]

\* The body of onTestComplete(result) on the metrics m.
Tally(m, name, status, duration) ==
    LET counted == [m EXCEPT !.totalTests = @ + 1,
                             !.totalDuration = @ + duration,
                             ![CounterOf(status)] = @ + 1]
    IN [counted EXCEPT
            !.slowestTest = IF duration > m.slowestTest.duration
                            THEN [name |-> name, duration |-> duration] ELSE @,
            !.fastestTest = IF LessThan(duration, m.fastestTest.duration)
                            THEN [name |-> name, duration |-> Num(duration)] ELSE @,
            !.averageDuration = Divide(counted.totalDuration, counted.totalTests)]

\* MetricsTestObserver.onTestComplete(result)
onTestComplete ==
    /\ UNCHANGED notMetrics
    /\ seen.events < MaxEvents
    /\ \E name \in TestNames, status \in ResultStatuses, duration \in ResultDurations :
        /\ metrics' = Tally(metrics, name, status, duration)
        /\ seen' = [events |-> seen.events + 1, duration |-> seen.duration + duration,
                    results |-> seen.results \cup {[name |-> name, duration |-> duration]}]

\* MetricsTestObserver.reset()
reset ==
    /\ UNCHANGED notMetrics
    /\ metrics' = NewMetrics
    /\ seen' = NoneSeen

\* ---------------------------------------------------------- specifications

ClientInit ==
    /\ config = RandomUserApiClient(NoConfig)
    /\ pc = "idle"
    /\ attempt = 0
    /\ params = NoParams
    /\ events = <<>>
    /\ timer = 0
    /\ lastError = NoError
    /\ result = NoResult
    /\ op = NoOp

InvokerInit ==
    /\ history = <<>>
    /\ currentIndex = -1
    /\ call = NoCall
    /\ trace = <<>>
    /\ returned = NoReturned

CommandInit == execution = NoExecution

MacroInit == macro = MacroTestCommand(<<>>)

NotifierInit ==
    /\ observers = <<>>
    /\ notification = NoNotification
    /\ removed = NoRemoved

ValidatorInit ==
    /\ composite = <<>>
    /\ validation = NoValidation

ConfigInit == api = loadEnvironmentConfig(loadDefaultConfig, Unset, <<>>).api

FlightInit == inflight = [r \in Requests |-> NoFlight]

MetricsInit ==
    /\ metrics = NewMetrics
    /\ seen = NoneSeen

StrategyInit == validated = NoValidated

StructureInit == checked = NoChecked

\* ------------------------------- TestCommandInvoker, overlapping calls

\* The calls suspended at once, and the calls started, on the invoker.
MaxSuspended == 2
MaxOverlapCalls == 5

Slots == 1..MaxSuspended
NoAwait == [op |-> "none", cmd |-> ""]
NoTally == [runs |-> [c \in Commands |-> 0], undone |-> [c \in Commands |-> 0], started |-> 0]

\* A call runs up to its await and is suspended in a free slot.
Suspend(name, command) ==
    \E slot \in Slots :
        /\ awaiting[slot] = NoAwait
        /\ \A other \in 1..(slot - 1) : awaiting[other] # NoAwait
        /\ awaiting' = [awaiting EXCEPT ![slot] = [op |-> name, cmd |-> command]]

\* executeCommand(command) started while other calls may be suspended: the
\* history is cut and pushed, the index advances, command.execute() starts.
executeCommandOverlapping ==
    /\ UNCHANGED notOverlap
    /\ tally.started < MaxOverlapCalls
    /\ Len(invoker.history) < MaxHistory
    /\ \E command \in Commands :
        /\ invoker' = [history |-> Append(slice(invoker.history, invoker.currentIndex), command),
                       currentIndex |-> invoker.currentIndex + 1]
        /\ Suspend("execute", command)
        /\ tally' = [tally EXCEPT !.runs[command] = @ + 1, !.started = @ + 1]

\* undoLastCommand() started while other calls may be suspended: with an
\* entry under the index its undo() starts; the index is read now and steps
\* back only after the await.
undoLastCommandOverlapping ==
    /\ UNCHANGED notOverlap
    /\ tally.started < MaxOverlapCalls
    /\ IF invoker.currentIndex >= 0
       THEN LET command == At(invoker.history, invoker.currentIndex) IN
            /\ Suspend("undo", command)
            /\ tally' = [tally EXCEPT !.undone[command] = @ + 1, !.started = @ + 1]
       ELSE /\ awaiting' = awaiting
            /\ tally' = [tally EXCEPT !.started = @ + 1]
    /\ UNCHANGED invoker

\* redoCommand() started while other calls may be suspended: with a newer
\* entry the index advances and the entry under it is executed; an index that
\* is still below 0 has no entry under it and the call raises a TypeError.
redoCommandOverlapping ==
    /\ UNCHANGED notOverlap
    /\ tally.started < MaxOverlapCalls
    /\ IF invoker.currentIndex < Len(invoker.history) - 1
       THEN /\ invoker' = [invoker EXCEPT !.currentIndex = @ + 1]
            /\ IF invoker.currentIndex + 1 >= 0
               THEN LET command == At(invoker.history, invoker.currentIndex + 1) IN
                    /\ Suspend("redo", command)
                    /\ tally' = [tally EXCEPT !.runs[command] = @ + 1, !.started = @ + 1]
               ELSE /\ awaiting' = awaiting
                    /\ tally' = [tally EXCEPT !.started = @ + 1]
       ELSE /\ UNCHANGED <<invoker, awaiting>>
            /\ tally' = [tally EXCEPT !.started = @ + 1]

\* clearHistory() called while other calls may be suspended.
clearHistoryOverlapping ==
    /\ UNCHANGED notOverlap
    /\ tally.started < MaxOverlapCalls
    /\ invoker' = [history |-> <<>>, currentIndex |-> -1]
    /\ tally' = [tally EXCEPT !.started = @ + 1]
    /\ UNCHANGED awaiting

\* An awaited execute() or undo() settles and its call resumes: an undo whose
\* undo() resolved steps the index back, whatever the index is by now.
awaitSettles ==
    /\ UNCHANGED notOverlap
    /\ \E slot \in Slots :
        /\ awaiting[slot] # NoAwait
        /\ \E resolved \in BOOLEAN :
            invoker' = IF awaiting[slot].op = "undo" /\ resolved
                       THEN [invoker EXCEPT !.currentIndex = @ - 1]
                       ELSE invoker
        /\ awaiting' = [awaiting EXCEPT ![slot] = NoAwait]
    /\ UNCHANGED tally

OverlapInit ==
    /\ invoker = [history |-> <<>>, currentIndex |-> -1]
    /\ awaiting = [slot \in Slots |-> NoAwait]
    /\ tally = NoTally

\* ------------------------------------------------------ ApiClientBuilder

\* The clients built from one builder.
MaxClients == 2

\* What the with* calls are given.
BaseUrls == {"", "http://localhost"}
Timeouts == {0, 5000}
Retries == {[attempts |-> 0, delay |-> 500], [attempts |-> 2, delay |-> 500]}

\* The builder's this.config is the first object of the heap.
BuilderConfig == 1

\* Mutant of NewClient: the constructor keeps the object it was handed
\* (this.config = config).
NewClientKeepsConfig(ref) == [ref |-> ref, heap |-> heap]

\* new RandomUserApiClient(config), config being the object under ref: the
\* constructor reads its settings and stores them in a new object, its own.
NewClient(ref) ==
    [ref |-> Len(heap) + 1, heap |-> Append(heap, RandomUserApiClient(heap[ref]))]

withBaseUrl ==
    /\ UNCHANGED notBuilder
    /\ \E baseUrl \in BaseUrls : heap' = [heap EXCEPT ![BuilderConfig].baseUrl = Text(baseUrl)]
    /\ UNCHANGED <<clients, asBuilt>>

withTimeout ==
    /\ UNCHANGED notBuilder
    /\ \E timeout \in Timeouts : heap' = [heap EXCEPT ![BuilderConfig].timeout = Num(timeout)]
    /\ UNCHANGED <<clients, asBuilt>>

withRetries ==
    /\ UNCHANGED notBuilder
    /\ \E retries \in Retries :
        heap' = [heap EXCEPT ![BuilderConfig].retryAttempts = Num(retries.attempts),
                             ![BuilderConfig].retryDelay = Num(retries.delay)]
    /\ UNCHANGED <<clients, asBuilt>>

\* withLogger(logger): the logger is kept and logging is switched on.
withLogger ==
    /\ UNCHANGED notBuilder
    /\ heap' = [heap EXCEPT ![BuilderConfig].enableLogging = Bool(TRUE)]
    /\ UNCHANGED <<clients, asBuilt>>

withLogging ==
    /\ UNCHANGED notBuilder
    /\ \E enabled \in BOOLEAN : heap' = [heap EXCEPT ![BuilderConfig].enableLogging = Bool(enabled)]
    /\ UNCHANGED <<clients, asBuilt>>

\* build(): a client is constructed on the builder's this.config.
builderBuild ==
    /\ UNCHANGED notBuilder
    /\ Len(clients) < MaxClients
    /\ LET new == NewClient(BuilderConfig) IN
        /\ heap' = new.heap
        /\ clients' = Append(clients, new.ref)
        /\ asBuilt' = Append(asBuilt, new.heap[new.ref])

\* new ApiClientBuilder()
BuilderInit ==
    /\ heap = <<NoConfig>>
    /\ clients = <<>>
    /\ asBuilt = <<>>

Init ==
    /\ ConfigInit
    /\ ClientInit
    /\ InvokerInit
    /\ CommandInit
    /\ MacroInit
    /\ NotifierInit
    /\ ValidatorInit
    /\ StructureInit
    /\ FlightInit
    /\ MetricsInit
    /\ StrategyInit
    /\ OverlapInit
    /\ BuilderInit
    /\ EnvironmentInit

\* One request at a time on clients of every built configuration.
NextRetry ==
    \/ build
    \/ getSingleUser
    \/ RequestSucceeds
    \/ RequestFails
    \/ WaitDone
    \/ Settle

SpecRetry == Init /\ [][NextRetry]_vars

\* The timer of a pending wait(delay) fires.
SpecRetryFair == SpecRetry /\ WF_vars(WaitDone)

\* The checking wrappers on the default client.
NextParams ==
    \/ getMultipleUsers
    \/ getUsersByGender
    \/ getUsersByNationality
    \/ getUsersWithFields
    \/ getUsersWithoutFields
    \/ getUsersWithSeed
    \/ RequestSucceeds
    \/ RequestFails
    \/ WaitDone
    \/ Settle

SpecParams == Init /\ [][NextParams]_vars

\* One invoker driven by one sequence of calls.
NextInvoker ==
    \/ executeCommand
    \/ undoLastCommand
    \/ redoCommand
    \/ clearHistory
    \/ executeSettles
    \/ undoSettles

SpecInvoker == Init /\ [][NextInvoker]_vars

\* One invoker and a caller that reads the history and changes what it read.
NextHistory ==
    \/ executeCommand
    \/ undoLastCommand
    \/ redoCommand
    \/ clearHistory
    \/ executeSettles
    \/ undoSettles
    \/ getHistoryCall
    \/ editReturned

SpecHistory == Init /\ [][NextHistory]_vars

\* The built-in commands run one after another on the default client.
NextCommands ==
    \/ FetchSingleUserCommand
    \/ FetchMultipleUsersCommand
    \/ FetchUsersByGenderCommand
    \/ PerformanceTestCommand
    \/ RequestSucceeds
    \/ RequestFails
    \/ WaitDone
    \/ commandSettles

SpecCommands == Init /\ [][NextCommands]_vars

\* One macro command at a time: built, extended, executed and undone.
NextMacro ==
    \/ newMacro
    \/ addCommand
    \/ macroExecute
    \/ subExecuteSettles
    \/ macroUndo
    \/ subUndoSettles

SpecMacro == Init /\ [][NextMacro]_vars

\* One notifier: observers come and go between its notify calls.
NextNotifier ==
    \/ addObserver
    \/ removeObserver
    \/ notifyTestStart
    \/ notifyTestComplete
    \/ notifySuiteComplete
    \/ handlerRuns

SpecNotifier == Init /\ [][NextNotifier]_vars

\* One composite strategy: built, changed and run on data.
NextValidator ==
    \/ newComposite
    \/ addStrategy
    \/ removeStrategy
    \/ compositeValidate

SpecValidator == Init /\ [][NextValidator]_vars

\* The user-structure strategy run on one record after another.
NextStructure == userStructureValidate

SpecStructure == Init /\ [][NextStructure]_vars

\* Clients built under every environment the configuration manager can read.
NextEnv ==
    \/ resetToDefaults
    \/ build
    \/ getSingleUser
    \/ RequestSucceeds
    \/ RequestFails
    \/ WaitDone
    \/ Settle

SpecEnv == Init /\ [][NextEnv]_vars

\* Several requests interleaving on one client.
NextConcurrent ==
    \/ buildShared
    \/ getUsersInFlight
    \/ flightSucceeds
    \/ flightFails
    \/ flightWaitDone
    \/ flightSettles

SpecConcurrent == Init /\ [][NextConcurrent]_vars

\* One metrics observer receiving test-completed events.
NextMetrics ==
    \/ onTestComplete
    \/ reset

SpecMetrics == Init /\ [][NextMetrics]_vars

\* Every built-in strategy run on data of every kind.
NextStrategies ==
    \/ emailValidate
    \/ uuidValidate
    \/ coordinateValidate
    \/ structureValidate
    \/ responseValidate
    \/ fullUserValidate

SpecStrategies == Init /\ [][NextStrategies]_vars

\* The full-user composite run on person records.
NextFullUser == fullUserValidate

SpecFullUser == Init /\ [][NextFullUser]_vars

\* The response-structure strategy run on envelopes.
NextEnvelope == responseValidate

SpecEnvelope == Init /\ [][NextEnvelope]_vars

\* The test hooks: one notifier and one invoker side by side; setupTest
\* announces a start, a test may use the notifier and the invoker as it likes.
NextHooks ==
    \/ addObserver
    \/ notifyTestStart
    \/ notifyTestComplete
    \/ handlerRuns
    \/ executeCommand
    \/ executeSettles

SpecHooks == Init /\ [][NextHooks]_vars

\* One invoker whose calls are started while earlier ones are suspended.
NextOverlap ==
    \/ executeCommandOverlapping
    \/ undoLastCommandOverlapping
    \/ redoCommandOverlapping
    \/ clearHistoryOverlapping
    \/ awaitSettles

SpecOverlap == Init /\ [][NextOverlap]_vars

\* One notifier whose handlers subscribe and unsubscribe observers while a
\* fan-out is in flight.
NextReentrant ==
    \/ addObserver
    \/ notifyTestComplete
    \/ handlerRuns
    \/ handlerUnsubscribes
    \/ handlerSubscribes

SpecReentrant == Init /\ [][NextReentrant]_vars

\* One builder: its with* calls and the clients it builds.
NextBuilder ==
    \/ withBaseUrl
    \/ withTimeout
    \/ withRetries
    \/ withLogger
    \/ withLogging
    \/ builderBuild

SpecBuilder == Init /\ [][NextBuilder]_vars

\* getConfigForEnvironment called under every environment of the process.
NextEnvironment ==
    \/ setEnvironment
    \/ getConfigForEnvironmentCall

SpecEnvironment == Init /\ [][NextEnvironment]_vars

\* All components together. The properties are checked under the component
\* specifications above: no action of one component reads or writes another's
\* variables.
Next == NextRetry \/ NextParams \/ NextInvoker \/ NextHistory \/ NextCommands \/ NextMacro \/ NextNotifier \/ NextValidator \/ NextStructure \/ NextEnv \/ NextConcurrent \/ NextMetrics \/ NextStrategies \/ NextFullUser \/ NextEnvelope \/ NextHooks \/ NextOverlap \/ NextReentrant \/ NextBuilder \/ NextEnvironment

Spec == Init /\ [][Next]_vars

\* ------------------------------------------------ properties of the client

\* The indices of the events of one kind, and how many there are.
EventsOf(kind) == {i \in DOMAIN events : events[i].e = kind}
NumCalls == Cardinality(EventsOf("call"))
NumWaits == Cardinality(EventsOf("wait"))

\* This step is the failure of the current attempt's network call.
AttemptFails ==
    /\ pc = "calling"
    /\ events' = Append(events, FailEvent(attempt))

\* The error getUsers raises for a failure, as the result records it.
RaisedFor(err) == LET h == handleError(err) IN Raised(h.category, h.status, <<>>)

\* No network call and no wait is added by this step.
NothingFurther == NumCalls' <= NumCalls /\ NumWaits' <= NumWaits

\* C1: with max attempts N >= 1 a request issues at most N network calls; when
\* attempt k >= N fails, the request fails in that very step with that failure,
\* no wait is started, and no call or wait follows.
C1_AtMostMaxAttempts ==
    /\ [](config.retryAttempts.t = "num" /\ config.retryAttempts.v >= 1
            => NumCalls <= config.retryAttempts.v)
    /\ [][AttemptFails /\ attempt >= config.retryAttempts.v
            => pc' = "thrown" /\ timer' = 0 /\ result' = RaisedFor(lastError') /\ NothingFurther]_vars
    /\ [][pc = "thrown" => NothingFurther]_vars

\* Three calls were made with max attempts 3, each failed with a 503, and the
\* request has failed.
C1_Witness ==
    /\ pc = "thrown"
    /\ config.retryAttempts = Num(3)
    /\ attempt = 3
    /\ NumCalls = 3
    /\ lastError = [kind |-> "http", status |-> 503]
    /\ result.category = "Service Unavailable"

\* A response whose status is in [400,500) and is not 429.
ClientErrorStatus(err) == err.kind = "http" /\ err.status \in (400..499) \ {429}

\* C2: once an attempt has failed with a status in [400,500) other than 429 the
\* request has failed: nothing waits, and the calls and waits are those made up
\* to that attempt (one call and no wait when it was the first attempt).
C2_ClientErrorFailsAtOnce ==
    ClientErrorStatus(lastError) =>
        /\ pc = "thrown"
        /\ timer = 0
        /\ result = RaisedFor(lastError)
        /\ NumCalls = attempt
        /\ NumWaits = attempt - 1
        /\ events[Len(events)] = FailEvent(attempt)

\* A 404 on the first attempt of a client with attempts left: one call, no wait.
C2_Witness ==
    /\ lastError = [kind |-> "http", status |-> 404]
    /\ config.retryAttempts = Num(3)
    /\ pc = "thrown"
    /\ events = <<CallEvent(1), FailEvent(1)>>

\* A failure the classification retries: 429, a status >= 500, or no response.
RetryableFailure(err) ==
    \/ err.kind = "http" /\ (err.status = 429 \/ err.status >= 500)
    \/ err.kind = "noresponse"

\* C3: when attempt k < max attempts fails with 429, a status >= 500 or no
\* response, the request does not fail but starts a wait; the only step out of a
\* wait issues attempt k+1; and every wait is followed by that attempt.
C3_RetryableFailureRetries ==
    /\ [][AttemptFails /\ attempt < config.retryAttempts.v /\ RetryableFailure(lastError')
            => pc' = "waiting" /\ result' = NoResult /\ attempt' = attempt]_vars
    /\ [][pc = "waiting" /\ pc' # "waiting"
            => /\ pc' = "calling"
               /\ attempt' = attempt + 1
               /\ events' = events \o <<WaitEvent(timer), CallEvent(attempt + 1)>>]_vars
    /\ \A k \in 1..MaxAttempts :
        (pc = "waiting" /\ attempt = k) ~> (pc = "calling" /\ attempt = k + 1)

\* Attempt 1 failed with a 429 and attempt 2 has been issued after the wait.
C3_Witness ==
    /\ pc = "calling"
    /\ attempt = 2
    /\ lastError = [kind |-> "http", status |-> 429]
    /\ events = <<CallEvent(1), FailEvent(1), WaitEvent(config.retryDelay.v), CallEvent(2)>>

\* C4: the wait after failed attempt k is retryDelay * 2^(k-1) milliseconds, and
\* the call of attempt k+1 comes only after that wait has completed: in events
\* every call after the first directly follows the completed wait, which
\* directly follows the failure of attempt k. With max attempts 3 and a delay
\* of 1000 the waits are 1000 and then 2000.
C4_ExponentialBackoff ==
    /\ \A i \in EventsOf("call") :
        LET n == events[i].n IN
        n > 1 => /\ i > 2
                 /\ events[i - 1] = WaitEvent(config.retryDelay.v * 2 ^ (n - 2))
                 /\ events[i - 2] = FailEvent(n - 1)
    /\ \A i \in EventsOf("wait") : i < Len(events) /\ events[i + 1].e = "call"
    /\ pc = "waiting" =>
        /\ timer = config.retryDelay.v * 2 ^ (attempt - 1)
        /\ events[Len(events)] = FailEvent(attempt)
    /\ (config.retryAttempts = Num(3) /\ config.retryDelay = Num(1000) /\ NumCalls = 3) =>
        [i \in 1..2 |-> events[3 * i].n] = <<1000, 2000>>

\* Max attempts 3, delay 1000: the third call was issued after waits of 1000
\* and 2000.
C4_Witness ==
    /\ config.retryAttempts = Num(3) /\ config.retryDelay = Num(1000)
    /\ events = <<CallEvent(1), FailEvent(1), WaitEvent(1000), CallEvent(2), FailEvent(2),
                  WaitEvent(2000), CallEvent(3)>>

\* C5: when an attempt succeeds the request returns that attempt's payload in
\* the same step, whatever failed before, and no call or wait follows it.
C5_SuccessReturnsAtOnce ==
    \A i \in EventsOf("ok") :
        /\ i = Len(events)
        /\ events[i - 1] = CallEvent(events[i].n)
        /\ pc = "returned"
        /\ result = Returned(events[i].n)
        /\ NumCalls = events[i].n
        /\ timer = 0

\* Max attempts 3: a 503 on attempts 1 and 2, then a success on attempt 3.
C5_Witness ==
    /\ config.retryAttempts = Num(3)
    /\ pc = "returned"
    /\ lastError = [kind |-> "http", status |-> 503]
    /\ result = Returned(3)
    /\ NumCalls = 3
    /\ Cardinality(EventsOf("fail")) = 2

\* A failure that is neither a response nor a missing response: an error
\* raised before the request was sent.
NeverSent(err) == err.kind \notin {"none", "http", "noresponse"}

\* C22: once an attempt has failed with an error raised before the request was
\* sent, the request has failed on that attempt: nothing waits, no wait was
\* made for it and no call follows, also when attempts remain.
C22_NeverSentFailsAtOnce ==
    NeverSent(lastError) =>
        /\ pc = "thrown"
        /\ timer = 0
        /\ NumCalls = attempt
        /\ NumWaits = attempt - 1
        /\ events[Len(events)] = FailEvent(attempt)

\* C25: a request in flight always has a last attempt ahead of it, one whose
\* failure ends the request, so that no run of retryable failures keeps the
\* client retrying forever: this for every retry count the configuration
\* source or a builder supplies (0, negative and unparseable ones included).
C25_SomeAttemptIsLast ==
    pc \in {"calling", "waiting"} =>
        \E n \in attempt..MaxCalls : GreaterEq(n, config.retryAttempts)

RECURSIVE AloneUpTo(_, _)
\* What a request run alone has done when it issues attempt a: each earlier
\* attempt k was called and failed, and a wait of base * 2^(k-1) followed.
AloneUpTo(a, base) ==
    IF a <= 1 THEN <<CallEvent(1)>>
    ELSE AloneUpTo(a - 1, base)
         \o <<FailEvent(a - 1), WaitEvent(base * 2 ^ (a - 2)), CallEvent(a)>>

\* The request stands where a request run alone on this client can stand: its
\* calls, failures and waits are those of its own attempts 1..attempt, it
\* waits only with attempts of its own left, and it has failed only on a
\* failure of its own that ends the retries.
RunsAsAlone(f) ==
    \/ f = NoFlight
    \/ /\ f.attempt >= 1
       /\ f.attempt <= config.retryAttempts.v \/ f.attempt = 1
       /\ f.events = AloneUpTo(f.attempt, config.retryDelay.v)
                        \o CASE f.pc = "calling" -> <<>>
                              [] f.pc = "returned" -> <<OkEvent(f.attempt)>>
                              [] OTHER -> <<FailEvent(f.attempt)>>
       /\ f.pc = "waiting" =>
            /\ f.attempt < config.retryAttempts.v
            /\ f.timer = config.retryDelay.v * 2 ^ (f.attempt - 1)
            /\ ~ClientErrorStatus(f.lastError)
            /\ f.result = NoResult
       /\ f.pc = "thrown" =>
            /\ f.attempt >= config.retryAttempts.v \/ ClientErrorStatus(f.lastError)
            /\ f.result.state = "raised"
            /\ f.result.status = f.lastError.status
       /\ f.pc = "returned" => f.result = Returned(f.attempt)
       /\ f.pc = "calling" => f.result = NoResult /\ f.timer = 0

\* C26: with several requests in flight on one client, each request's attempt
\* counter, network calls and backoff waits are those of a request run alone,
\* and a step of one request (a failure, a retry, a completion) leaves every
\* other request as it was.
C26_RequestsDoNotInterfere ==
    /\ [](\A r \in Requests : RunsAsAlone(inflight[r]))
    /\ [][\A r \in Requests : inflight'[r] # inflight[r] =>
            \A q \in Requests \ {r} : inflight'[q] = inflight[q]]_vars

\* Request 1 has failed on a 404 at its first attempt while request 2, after
\* two failures and two waits of its own, has its third call pending.
C26_Witness ==
    /\ config.retryAttempts = Num(3) /\ config.retryDelay = Num(1000)
    /\ inflight[1].pc = "thrown"
    /\ inflight[1].events = <<CallEvent(1), FailEvent(1)>>
    /\ inflight[1].lastError = [kind |-> "http", status |-> 404]
    /\ inflight[2].pc = "calling"
    /\ inflight[2].events = <<CallEvent(1), FailEvent(1), WaitEvent(1000), CallEvent(2),
                              FailEvent(2), WaitEvent(2000), CallEvent(3)>>

\* ------------------------------------------ properties of the wrappers

\* The operation failed its parameter check with this message: nothing was
\* sent and nothing will be.
RejectedWith(category) ==
    /\ pc = "thrown"
    /\ result.state = "raised"
    /\ result.category = category
    /\ NumCalls = 0
    /\ events = <<>>

\* The parameter check passed: the retrying request was started, its first
\* network call issued.
RequestIssued ==
    /\ Len(events) >= 1
    /\ events[1] = CallEvent(1)
    /\ result.category \notin {"Count must be between 1 and 5000", "Unsupported nationality", "Invalid fields"}

\* C6: getMultipleUsers(count) with count outside [1,5000] fails with 'Count
\* must be between 1 and 5000' and no network call is issued; with count inside
\* [1,5000] the retrying request is issued with results = count.
C6_CountRange ==
    op.name = "getMultipleUsers" =>
        IF op.count \in 1..5000
        THEN RequestIssued /\ params.results = op.count
        ELSE RejectedWith("Count must be between 1 and 5000")

\* getMultipleUsers(5001) has failed without a network call.
C6_Witness ==
    /\ op = Called("getMultipleUsers", 5001, <<>>)
    /\ RejectedWith("Count must be between 1 and 5000")

\* The operations that take a result count.
CountedOperations ==
    {"getMultipleUsers", "getUsersByGender", "getUsersByNationality",
     "getUsersWithFields", "getUsersWithoutFields", "getUsersWithSeed"}

\* C23: every operation that takes a result count (bulk, by gender, by
\* nationality, field inclusion, field exclusion, fixed seed) called with a
\* count outside [1,5000] has failed before any network call was issued.
C23_EveryCountChecked ==
    (op.name \in CountedOperations /\ op.count \notin 1..5000) =>
        /\ pc = "thrown"
        /\ result.state = "raised"
        /\ NumCalls = 0
        /\ events = <<>>

\* The message each operation's parameter check fails with.
PreCheckMessage ==
    [name \in CountedOperations |->
        CASE name = "getMultipleUsers" -> {"Count must be between 1 and 5000"}
          [] name = "getUsersByNationality" -> {"Unsupported nationality"}
          [] name \in {"getUsersWithFields", "getUsersWithoutFields"} -> {"Invalid fields"}
          [] OTHER -> {}]

\* C24: a request that failed after a network call carries the category of the
\* failure of its last attempt: 400 Bad Request, 404 Not Found, 429 Too Many
\* Requests, 500 Internal Server Error, 503 Service Unavailable, any other
\* status the generic status error, each with the status; no response 'No
\* response from server'; never sent 'Request configuration error'. A request
\* that failed its parameter check carries that check's own message and none
\* of these categories.
C24_ErrorCarriesLastCategory ==
    pc = "thrown" =>
        IF NumCalls >= 1
        THEN /\ events[Len(events)] = FailEvent(attempt)
             /\ lastError.kind = "http" =>
                    /\ result.status = lastError.status
                    /\ result.category =
                        CASE lastError.status = 400 -> "Bad Request"
                          [] lastError.status = 404 -> "Not Found"
                          [] lastError.status = 429 -> "Too Many Requests"
                          [] lastError.status = 500 -> "Internal Server Error"
                          [] lastError.status = 503 -> "Service Unavailable"
                          [] OTHER -> "status"
             /\ lastError.kind = "noresponse" => result.category = "No response from server"
             /\ lastError.kind = "setup" => result.category = "Request configuration error"
        ELSE /\ result.category \in PreCheckMessage[op.name]
             /\ result.status = 0
             /\ lastError = NoError

\* Attempts 1 and 2 ended in a 503, attempt 3 in a 429: the request failed
\* with Too Many Requests.
C24_Witness ==
    /\ pc = "thrown"
    /\ attempt = 3
    /\ NumCalls = 3
    /\ lastError = [kind |-> "http", status |-> 429]
    /\ result.category = "Too Many Requests"
    /\ result.status = 429

\* C7: getUsersByNationality fails with 'Unsupported nationality' before any
\* network call exactly when the upper-cased input is not in the allow-list;
\* otherwise the request is issued with nat = the upper-case form.
C7_NationalityAllowList ==
    op.name = "getUsersByNationality" =>
        /\ RejectedWith("Unsupported nationality") <=> toUpperCase(op.arg) \notin supportedNationalities
        /\ toUpperCase(op.arg) \in supportedNationalities =>
            /\ RequestIssued
            /\ params.nat = toUpperCase(op.arg)
            /\ params.nat \in supportedNationalities

\* The mixed-case input "uS" was accepted and "US" passed on.
C7_Witness ==
    /\ op.name = "getUsersByNationality"
    /\ op.arg = <<"u", "S">>
    /\ RequestIssued
    /\ params.nat = <<"U", "S">>

\* C8: getUsersWithFields and getUsersWithoutFields fail with 'Invalid fields'
\* before any network call when some supplied name is outside the attribute
\* set, and issue the request when every supplied name is in it.
C8_FieldNames ==
    op.name \in {"getUsersWithFields", "getUsersWithoutFields"} =>
        IF \E i \in DOMAIN op.arg : op.arg[i] \notin availableFields
        THEN RejectedWith("Invalid fields")
        ELSE RequestIssued

\* A valid name followed by an invalid one was refused.
C8_Witness ==
    /\ op.name = "getUsersWithFields"
    /\ op.arg = <<"name", "invalidField">>
    /\ RejectedWith("Invalid fields")
    /\ result.detail = <<"invalidField">>

\* ------------------------------------------- properties of the invoker

\* C9: in every state of an invoker driven by execute, undo, redo and
\* clearHistory calls, whether the commands' logic succeeds or fails,
\* -1 <= currentIndex < history.length.
C9_CursorInRange == -1 <= currentIndex /\ currentIndex < Len(history)

\* An undo whose undo logic raised, after an earlier undo and with two entries
\* recorded: the index stays on the first entry.
C9_Witness ==
    /\ call.op = "undo"
    /\ call.ret = "raised"
    /\ Len(history) = 2
    /\ currentIndex = 0

\* C10: executeCommand(cmd) entered with history h and index c leaves history =
\* h[0..c] followed by cmd and index = c+1 before cmd's execution logic runs,
\* and runs that logic once; so while it runs and after it settles, passed,
\* failed or raising, the index is history.length-1, canUndo() holds, canRedo()
\* does not, and cmd is the entry under the index.
C10_ExecuteRecordsThenRuns ==
    call.op = "execute" =>
        /\ history = SubSeq(call.h0, 1, call.c0 + 1) \o <<call.cmd>>
        /\ currentIndex = call.c0 + 1
        /\ call.ranExecute = <<call.cmd>>
        /\ call.ranUndo = <<>>
        /\ currentIndex = Len(history) - 1
        /\ canUndo
        /\ ~canRedo
        /\ history[currentIndex + 1] = call.cmd
        /\ call.phase = "done" => call.ret \in {"passed", "failed", "raised"}

\* An execute entered with two undone entries ahead of the index has cut them
\* and recorded its command, whose result is failed.
C10_Witness ==
    /\ call.op = "execute"
    /\ call.phase = "done"
    /\ call.ret = "failed"
    /\ Len(call.h0) = 3
    /\ call.c0 = 0
    /\ history = <<call.h0[1], call.cmd>>

\* execute(A), execute(B), undo(), execute(C) on a new invoker, the last call
\* having returned or raised; undone tells how B's undo logic ended.
AfterABUndoC(undone) ==
    /\ trace = <<[op |-> "execute", cmd |-> "A", ret |-> ""],
                 [op |-> "execute", cmd |-> "B", ret |-> ""],
                 [op |-> "undo", cmd |-> "", ret |-> undone],
                 [op |-> "execute", cmd |-> "C", ret |-> ""]>>
    /\ call.phase = "done"

\* C11 as stated: after execute(A), execute(B), undo(), execute(C) on an empty
\* invoker the history has length 3, its entry at index 1 is C and canRedo()
\* is false.
C11_LengthThree ==
    (\E undone \in UndoOutcomes : AfterABUndoC(undone)) =>
        /\ Len(history) = 3
        /\ At(history, 1) = "C"
        /\ ~canRedo

\* C11 amended: after execute(A), execute(B), undo(), execute(C) on an empty
\* invoker the history has length 2, its entry at index 1 is C (B is discarded)
\* and canRedo() is false; when B's undo logic raised, the undo left the index
\* on B, the history is A, B, C and canRedo() is false as well.
C11_BranchDiscarded ==
    /\ AfterABUndoC("void") =>
        /\ Len(history) = 2
        /\ history = <<"A", "C">>
        /\ At(history, 1) = "C"
        /\ ~canRedo
    /\ AfterABUndoC("raised") =>
        /\ history = <<"A", "B", "C">>
        /\ ~canRedo

\* The four calls were made, B's undo logic having completed, and C passed.
C11_Witness ==
    /\ AfterABUndoC("void")
    /\ call.ret = "passed"

\* What every undoLastCommand call does: with an entry under the index, that
\* entry's undo logic and no other logic is invoked, once; with none, nothing
\* is invoked and the call returns; the history is as it was.
UndoInvokes ==
    /\ history = call.h0
    /\ call.ranExecute = <<>>
    /\ IF call.c0 >= 0
       THEN call.ranUndo = <<At(call.h0, call.c0)>>
       ELSE /\ call.ranUndo = <<>>
            /\ call.phase = "done"
            /\ call.ret = "void"
            /\ currentIndex = call.c0

\* C12 as stated: undo() with index >= 0 invokes the undo logic of the entry
\* under the index once and then steps the index back by one, the history
\* unchanged; with index -1 it invokes nothing, raises nothing and changes
\* nothing; canUndo() is true exactly when the index is >= 0.
C12_UndoStepsBack ==
    /\ canUndo <=> currentIndex >= 0
    /\ call.op = "undo" =>
        /\ UndoInvokes
        /\ (call.c0 >= 0 /\ call.phase = "done") => currentIndex = call.c0 - 1

\* C12 amended: as stated, except that the index steps back only when the
\* entry's undo logic completes; when that logic raises, undo() raises and the
\* index stays on the entry. While the undo logic runs the index is unmoved.
C12_UndoStepsBackUnlessRaised ==
    /\ canUndo <=> currentIndex >= 0
    /\ call.op = "undo" =>
        /\ UndoInvokes
        /\ (call.c0 >= 0 /\ call.phase = "undoing") => currentIndex = call.c0
        /\ (call.c0 >= 0 /\ call.phase = "done") =>
            \/ call.ret = "void" /\ currentIndex = call.c0 - 1
            \/ call.ret = "raised" /\ currentIndex = call.c0

\* An undo entered with three entries and the index on the second has undone
\* the second and left the index on the first.
C12_Witness ==
    /\ call.op = "undo"
    /\ call.phase = "done"
    /\ call.ret = "void"
    /\ Len(call.h0) = 3
    /\ call.c0 = 1
    /\ call.ranUndo = <<call.h0[2]>>
    /\ currentIndex = 0

\* C13: redo() entered with the index on the newest entry (canRedo() false, an
\* empty invoker included) returns null, runs nothing and changes neither
\* index nor history, and only then; otherwise it advances the index by one,
\* executes the entry under the new index once and nothing else, returns the
\* TestResult of that execution and leaves the history unchanged.
C13_RedoReturnsResult ==
    call.op = "redo" =>
        /\ history = call.h0
        /\ call.ranUndo = <<>>
        /\ IF call.c0 >= Len(call.h0) - 1
           THEN /\ call.phase = "done"
                /\ call.ret = "null"
                /\ call.ranExecute = <<>>
                /\ currentIndex = call.c0
           ELSE /\ currentIndex = call.c0 + 1
                /\ call.ranExecute = <<At(call.h0, call.c0 + 1)>>
                /\ call.phase = "done" => call.ret \in {"passed", "failed"}

\* C15: executeCommand never raises: whatever the command's execution logic
\* does, raising included, the call returns a TestResult, passed or failed.
C15_ExecuteNeverRaises ==
    (call.op = "execute" /\ call.phase = "done") => call.ret \in {"passed", "failed"}

\* C14: getHistory() hands out all recorded entries in the order they were
\* executed, wherever the index is, and changes neither history nor index;
\* what it hands out is a copy: whatever the caller does to it, the invoker's
\* history stays what it was, and a later undo or redo runs the entry the
\* unchanged history holds under the index.
C14_HistoryIsCopy ==
    /\ call.op = "getHistory" =>
        /\ returned.taken
        /\ returned.was = call.h0
        /\ returned.edits = 0 => returned.items = call.h0
        /\ history = call.h0
        /\ currentIndex = call.c0
        /\ call.ranExecute = <<>> /\ call.ranUndo = <<>>
    /\ returned.taken =>
        /\ history = returned.was
        /\ (call.op = "undo" /\ call.c0 >= 0) =>
            call.ranUndo = <<At(returned.was, call.c0)>>
        /\ (call.op = "redo" /\ call.c0 < Len(returned.was) - 1) =>
            call.ranExecute = <<At(returned.was, call.c0 + 1)>>

\* With two entries and the index on the first, the array handed out listed
\* both; the caller emptied it; the redo that followed ran the second entry.
C14_Witness ==
    /\ returned.taken
    /\ Len(returned.was) = 2
    /\ returned.items = <<>>
    /\ call.op = "redo"
    /\ call.c0 = 0
    /\ call.phase = "done"
    /\ call.ranExecute = <<returned.was[2]>>
    /\ history = returned.was

\* ------------------------------------ properties of the built-in commands

\* The check of each built-in command on what its client call returned.
OwnCheckHolds ==
    CASE execution.kind = "FetchSingleUser" ->
            execution.payload.results = "array" /\ execution.payload.length = 1
      [] execution.kind = "FetchMultipleUsers" ->
            execution.payload.results = "array" /\ execution.payload.length = execution.count
      [] execution.kind = "FetchUsersByGender" ->
            /\ execution.payload.results = "array"
            /\ execution.payload.length = execution.count
            /\ \A g \in execution.payload.genders : g = execution.gender
      [] execution.kind = "PerformanceTest" ->
            execution.duration <= DefaultMaxDuration
      [] OTHER -> FALSE

SomeFailed == \E k \in DOMAIN macro.results : macro.results[k] = "failed"

\* C17: the macro's execute runs its sub-commands in list order, one at a
\* time: those started are a leading part of the list and each before the
\* latest has returned a result that is not failed. At the first sub-command
\* whose result is failed (or that raises) it stops, runs none of the later
\* ones and returns failed. It returns passed exactly when every sub-command
\* ran to a result and none of the results is failed.
C17_MacroStopsAtFirstFailed ==
    macro.op = "execute" =>
        /\ macro.ranExecute = SubSeq(macro.commands, 1, Len(macro.ranExecute))
        /\ \A k \in DOMAIN macro.results : k < Len(macro.ranExecute) => macro.results[k] # "failed"
        /\ macro.phase = "awaiting" => Len(macro.results) = Len(macro.ranExecute) - 1
        /\ macro.phase = "done" =>
            /\ Len(macro.results) \in {Len(macro.ranExecute) - 1, Len(macro.ranExecute)}
            /\ macro.ret \in {"passed", "failed"}
            /\ SomeFailed =>
                /\ macro.results[Len(macro.results)] = "failed"
                /\ Len(macro.ranExecute) = Len(macro.results)
                /\ macro.ret = "failed"
            /\ macro.ret = "passed" <=>
                (Len(macro.results) = Len(macro.commands) /\ ~SomeFailed)

\* Of three sub-commands the first passed and the second failed: the third was
\* not run and the macro returned failed.
C17_Witness ==
    /\ macro.op = "execute"
    /\ macro.phase = "done"
    /\ Len(macro.commands) = 3
    /\ macro.results = <<"passed", "failed">>
    /\ Len(macro.ranExecute) = 2
    /\ macro.ret = "failed"

\* The entries of a sequence from the last to the first.
Reverse(seq) == [k \in 1..Len(seq) |-> seq[Len(seq) + 1 - k]]

\* C18: the macro's undo invokes the undo logic of every sub-command once, in
\* reverse list order, whichever of them were executed, succeeded or failed,
\* and whether or not the undo logic of one invoked earlier fails.
C18_MacroUndoesAll ==
    (macro.op = "undo" /\ macro.phase = "done") => macro.ranUndo = Reverse(macro.commands)

\* ----------------------------------------------- properties of the notifier

\* One invocation of the handler for each subscription of the list, in the
\* list's order.
EachOnce(list, handler) == [k \in 1..Len(list) |-> [observer |-> list[k], handler |-> handler]]

\* C19: a notify call (test started, test completed, suite completed) invokes
\* the matching handler of every observer subscribed at the time, once each
\* and in subscription order, and all of them have run when the call ends;
\* with two observers one notifyTestComplete runs both onTestComplete
\* handlers once each, the first subscribed first.
C19_NotifyReachesAll ==
    /\ notification.op # "none" =>
        \E n \in 0..Len(notification.list) :
            notification.delivered = SubSeq(EachOnce(notification.list, notification.op), 1, n)
    /\ (notification.op # "none" /\ notification.phase = "done") =>
        notification.delivered = EachOnce(notification.list, notification.op)

\* C28: when a handler fails during a notify call, every observer subscribed
\* after the failing one still has its handler invoked for that event: the
\* call ends with one invocation for each subscription of the list.
C28_FailureDoesNotBlock ==
    (notification.phase = "done" /\ notification.ret = "raised") =>
        \A k \in (notification.i + 2)..Len(notification.list) :
            /\ Len(notification.delivered) >= k
            /\ notification.delivered[k].observer = notification.list[k]

\* This step is a removeObserver call that took effect or is remembered.
RemoveStep ==
    /\ removed'.observer # ""
    /\ notification' = notification
    /\ Len(observers') <= Len(observers)

\* This step invokes a handler.
InvokeStep == Len(notification'.delivered) > Len(notification.delivered)

\* C29: removeObserver(o), o subscribed once, leaves the other observers in
\* their order and o out; for an o not subscribed it changes nothing. No
\* later notify call invokes a handler of o (until o is subscribed again),
\* and every later notify call invokes the handler of each remaining observer
\* once, in subscription order.
C29_UnsubscribeStopsDelivery ==
    /\ [][RemoveStep /\ removed'.count <= 1 =>
            observers' = SelectSeq(observers, LAMBDA o : o # removed'.observer)]_vars
    /\ [][InvokeStep /\ removed.count = 1 =>
            notification'.delivered[Len(notification'.delivered)].observer # removed.observer]_vars
    /\ [][(removed.observer # "" /\ notification.phase = "running" /\ notification'.phase = "done") =>
            notification'.delivered = EachOnce(observers, notification.op)]_vars

\* ------------------------------------- properties of the composite strategy

\* The errors of the sub-results of the listed sub-strategies, one after the
\* other.
RECURSIVE ErrorsOfAll(_, _)
ErrorsOfAll(strategies, data) ==
    IF strategies = <<>> THEN <<>>
    ELSE data[Head(strategies)].errors \o ErrorsOfAll(Tail(strategies), data)

\* C20: for any list of sub-strategies and any data the composite's validate
\* runs every sub-strategy once, in order, whatever the earlier ones found;
\* its isValid is true exactly when every sub-result is valid; its errors are
\* the errors of all sub-results, joined in the sub-strategies' order.
C20_CompositeRunsAll ==
    validation.op = "validate" =>
        /\ validation.ran = validation.strategies
        /\ validation.kind = "result"
        /\ validation.isValid <=>
            \A k \in DOMAIN validation.strategies :
                /\ validation.data[validation.strategies[k]].kind = "result"
                /\ validation.data[validation.strategies[k]].isValid
        /\ validation.errors = ErrorsOfAll(validation.strategies, validation.data)

\* ------------------------------------- properties of the macro's failure

\* C27: the failed result of a macro execute that stopped at a sub-command,
\* whether that sub-command returned a failed result or raised, names that
\* sub-command and carries the reason.
C27_MacroNamesFailedSubCommand ==
    (macro.op = "execute" /\ macro.phase = "done" /\ macro.ret = "failed") =>
        /\ macro.error.text # ""
        /\ macro.error.of = At(macro.commands, macro.i)

\* --------------------------------- properties of the structural strategies

\* How many errors of the result name the field as missing.
NamedMissing(field) ==
    Cardinality({k \in DOMAIN checked.errors : checked.errors[k] = MissingField(field)})

\* The two sub-fields of the record's field are there.
NestedPresent(field) ==
    /\ checked.user[field].kind = "object"
    /\ checked.user[field].a # "absent"
    /\ checked.user[field].b # "absent"

\* C21: the user-structure strategy reports one error naming each required
\* field that is absent or undefined and none naming a field that is there;
\* isValid is true exactly when no required field is missing and the nested
\* sub-fields (name first and last, location city and country) are present.
C21_StructureReportsMissing ==
    checked.done =>
        /\ \A k \in DOMAIN requiredFields :
            NamedMissing(requiredFields[k]) =
                IF IsMissing(checked.user[requiredFields[k]]) THEN 1 ELSE 0
        /\ checked.isValid <=>
            /\ \A k \in DOMAIN requiredFields : ~IsMissing(checked.user[requiredFields[k]])
            /\ NestedPresent("name")
            /\ NestedPresent("location")

\* --------------------------------- properties of the metrics observer

\* C30: after any sequence of test-completed events delivered since
\* construction or the last reset, total = passed + failed + skipped = the
\* number of events delivered, the cumulative duration is the sum of the
\* delivered durations, and, once total >= 1, average duration * total =
\* cumulative duration.
C30_MetricsAddUp ==
    /\ metrics.totalTests = metrics.passedTests + metrics.failedTests + metrics.skippedTests
    /\ metrics.totalTests = seen.events
    /\ metrics.totalDuration = seen.duration
    /\ metrics.totalTests >= 1 =>
        TimesIs(metrics.averageDuration, metrics.totalTests, metrics.totalDuration)

\* C30, amended: the same with, once total >= 1, average duration = cumulative
\* duration / total as double-precision division gives it.
C30_MetricsAddUpQuotient ==
    /\ metrics.totalTests = metrics.passedTests + metrics.failedTests + metrics.skippedTests
    /\ metrics.totalTests = seen.events
    /\ metrics.totalDuration = seen.duration
    /\ metrics.totalTests >= 1 =>
        metrics.averageDuration = Divide(seen.duration, seen.events)

\* Seven events of 29 milliseconds in all, of every status, after a reset:
\* the average is 29/7, whose product with 7 is not 29.
C30_Witness ==
    /\ seen.events = 7
    /\ seen.duration = 29
    /\ metrics.totalTests = 7
    /\ metrics.passedTests = 4
    /\ metrics.failedTests = 2
    /\ metrics.skippedTests = 1
    /\ metrics.averageDuration = [num |-> 29, den |-> 7]
    /\ ~TimesIs(metrics.averageDuration, 7, 29)

\* C31: after at least one test-completed event (durations >= 0, 0 included)
\* the slowest-test entry names a delivered test whose duration is the
\* greatest of the delivered durations, and the fastest-test entry names a
\* delivered test whose duration is the least.
C31_SlowestAndFastest ==
    seen.events >= 1 =>
        /\ [name |-> metrics.slowestTest.name, duration |-> metrics.slowestTest.duration]
                \in seen.results
        /\ \A r \in seen.results : r.duration <= metrics.slowestTest.duration
        /\ metrics.fastestTest.duration.t = "num"
        /\ [name |-> metrics.fastestTest.name, duration |-> metrics.fastestTest.duration.v]
                \in seen.results
        /\ \A r \in seen.results : r.duration >= metrics.fastestTest.duration.v

\* --------------------------------- properties of the built-in strategies

\* The person record carries every required attribute with its nested
\* sub-attributes.
StructureComplete(person) ==
    /\ \A k \in DOMAIN requiredFields : person.fields[requiredFields[k]].kind \in {"string", "object"}
    /\ person.fields["name"] = CompleteObject
    /\ person.fields["location"] = CompleteObject

\* C32: the full-user composite returns isValid = true for a person record
\* with every required attribute and nested sub-attribute, a well-formed email
\* and a well-formed UUID, and isValid = false when one of the three checks
\* fails on the record.
C32_FullUserAcceptsValidRecord ==
    (validated.strategy = "FullUserValidation" /\ validated.data.t = "person") =>
        /\ validated.kind = "result"
        /\ validated.isValid <=>
            /\ StructureComplete(validated.data.v)
            /\ validated.data.v.email = <<"a", "@", "b", ".", "c">>
            /\ validated.data.v.uuid = UuidOf("a")

\* C33: validate never raises: whatever the strategy (primitive, structural,
\* composite) and the data (null, undefined and data of another shape
\* included) it returns a ValidationResult, invalid with errors when the data
\* is absent.
C33_ValidateNeverRaises ==
    validated.strategy # "" =>
        /\ validated.kind = "result"
        /\ validated.data.t \in {"null", "undefined"} =>
            ~validated.isValid /\ Len(validated.errors) >= 1

\* C34: the response-structure strategy returns isValid = true exactly when
\* results is an array and info is an object with a string seed, a numeric
\* results, a numeric page and a string version.
C34_EnvelopeShape ==
    (validated.strategy = "ResponseStructureValidation" /\ validated.data.t = "envelope") =>
        (validated.isValid <=>
            /\ validated.data.v.results = "array"
            /\ validated.data.v.info = "object"
            /\ validated.data.v.infoOf.seed = "string"
            /\ validated.data.v.infoOf.results = "number"
            /\ validated.data.v.infoOf.page = "number"
            /\ validated.data.v.infoOf.version = "string")

\* C35: every executeCommand is bracketed by lifecycle events: the step that
\* starts the command's execution logic has a test-started notification made
\* on the notifier, and the step in which the execution returns its
\* TestResult has a test-completed notification made.
C35_ExecuteBracketedByEvents ==
    [][/\ (call.phase = "done" /\ call'.phase = "executing" /\ call'.op = "execute")
            => (notification' # notification /\ notification'.op = "onTestStart")
       /\ (call.op = "execute" /\ call.phase = "executing" /\ call'.phase = "done")
            => (notification' # notification /\ notification'.op = "onTestComplete")]_vars

\* A redo() made right after an undo() that was entered with canUndo() true;
\* an undo() made right after a redo() that was entered with canRedo() true.
RedoAfterUndo ==
    /\ call.op = "redo"
    /\ call.prev.op = "undo"
    /\ call.prev.c0 >= 0
UndoAfterRedo ==
    /\ call.op = "undo"
    /\ call.phase = "done"
    /\ call.prev.op = "redo"
    /\ call.prev.c0 < Len(call.prev.h0) - 1

\* C36 as stated: with canUndo() true, undo() followed by redo() restores the
\* index and the history of before the undo, and the redo executes the entry
\* the undo undid; with canRedo() true, redo() followed by undo() restores
\* index and history.
C36_UndoRedoRoundTrip ==
    /\ RedoAfterUndo =>
        /\ currentIndex = call.prev.c0
        /\ history = call.prev.h0
        /\ call.ranExecute = call.prev.ranUndo
    /\ UndoAfterRedo =>
        /\ currentIndex = call.prev.c0
        /\ history = call.prev.h0

\* C36 amended: the round trips hold when the entry's undo logic completes,
\* whatever the redo's execution returns or raises. When the undo logic
\* raises, the history is still unchanged, but the index is not restored: an
\* undo() that raised left the index on its entry, so the redo() after it
\* runs the next newer entry and stops on it, or returns null on the newest;
\* an undo() that raises after a redo() leaves the index on the redone entry.
C36_UndoRedoRoundTripUnlessRaised ==
    /\ RedoAfterUndo =>
        /\ history = call.prev.h0
        /\ call.prev.ret = "void" =>
            /\ currentIndex = call.prev.c0
            /\ call.ranExecute = call.prev.ranUndo
        /\ call.prev.ret = "raised" =>
            IF call.prev.c0 < Len(call.prev.h0) - 1
            THEN /\ currentIndex = call.prev.c0 + 1
                 /\ call.ranExecute = <<At(history, call.prev.c0 + 1)>>
            ELSE /\ currentIndex = call.prev.c0
                 /\ call.ranExecute = <<>>
                 /\ call.ret = "null"
    /\ UndoAfterRedo =>
        /\ history = call.prev.h0
        /\ call.ranUndo = call.prev.ranExecute
        /\ call.ret = "void" => currentIndex = call.prev.c0
        /\ call.ret = "raised" => currentIndex = call.prev.c0 + 1

\* With three entries and the index on the second, the second was undone and
\* the redo that followed, whose execution raised, ran it again and left the
\* index on it.
C36_Witness ==
    /\ RedoAfterUndo
    /\ call.phase = "done"
    /\ call.ret = "raised"
    /\ call.prev.ret = "void"
    /\ Len(history) = 3
    /\ call.prev.c0 = 1
    /\ currentIndex = 1
    /\ call.ranExecute = <<history[2]>>

\* C37: with calls on one invoker overlapping, the index still never drops
\* below -1, no entry's undo logic is invoked more often than the entry was
\* executed, and an execute keeps every entry at or before the index.
C37_OverlapKeepsInvariants ==
    [][/\ invoker'.currentIndex >= -1
       /\ \A command \in Commands : tally'.undone[command] <= tally'.runs[command]
       /\ (\E command \in Commands : tally'.runs[command] > tally.runs[command]) =>
            \A i \in 0..invoker.currentIndex :
                /\ i < Len(invoker'.history)
                /\ At(invoker'.history, i) = At(invoker.history, i)]_vars

\* How often an observer is in an array; how often it was handed the event.
Subscriptions(array, observer) == Cardinality({k \in DOMAIN array : array[k] = observer})
Deliveries(observer) ==
    Cardinality({k \in DOMAIN notification.delivered : notification.delivered[k].observer = observer})

\* C38: a fan-out during which handlers unsubscribed or subscribed observers,
\* and which ran to its end, handed the event to every observer that was
\* subscribed when it started and was not removed during it, once for each of
\* its subscriptions.
C38_FanOutSurvivesChange ==
    (notification.phase = "done" /\ notification.ret = "void" /\ notification.changes # <<>>) =>
        \A observer \in Observers :
            (/\ Subscriptions(notification.list, observer) > 0
             /\ \A k \in DOMAIN notification.changes :
                    ~(notification.changes[k].op = "remove"
                      /\ notification.changes[k].observer = observer)) =>
                Deliveries(observer) = Subscriptions(notification.list, observer)

\* C39: a built client's configuration is fixed at build(): whatever with*
\* calls the builder gets afterwards, and whatever further clients it builds,
\* the base URL, timeout, max attempts, base delay and logging setting of every
\* client it has built are what they were when build() returned the client.
C39_BuiltClientIsFixed ==
    \A k \in DOMAIN clients :
        LET now == heap[clients[k]] IN
        /\ now.baseUrl = asBuilt[k].baseUrl
        /\ now.timeout = asBuilt[k].timeout
        /\ now.retryAttempts = asBuilt[k].retryAttempts
        /\ now.retryDelay = asBuilt[k].retryDelay
        /\ now.enableLogging = asBuilt[k].enableLogging

\* Two clients were built, the builder having been given other settings in
\* between and after: the first has the defaults, the second the settings the
\* builder had when it was built, and the builder has others by now.
C39_Witness ==
    /\ Len(clients) = 2
    /\ heap[clients[1]] = RandomUserApiClient(NoConfig)
    /\ heap[clients[2]].timeout = Num(5000)
    /\ heap[clients[2]].retryAttempts = Num(2)
    /\ heap[clients[2]].enableLogging = Bool(FALSE)
    /\ heap[BuilderConfig].timeout = Num(0)
    /\ heap[BuilderConfig].enableLogging = Bool(TRUE)
    /\ heap[BuilderConfig].baseUrl = Text("http://localhost")

\* C40: getConfigForEnvironment(env) is a function of env alone: the
\* configuration it returns is tagged env and is the one it returns with
\* NODE_ENV unset, whatever NODE_ENV was when it was called; the call leaves
\* NODE_ENV and the singleton's configuration as they were.
C40_FunctionOfEnvAlone ==
    [][obtained' # obtained =>
        /\ obtained'.config.environment = obtained'.env
        /\ obtained'.config =
              getConfigForEnvironment(obtained'.env, Unset, obtained'.retryAttemptsEnv).config
        /\ processEnv' = processEnv
        /\ api' = api]_vars

====
